---------------------------- MODULE Spec2Model ----------------------------
(***************************************************************************)
(* Model of the SSE-2 subscription gateway (sidecar/sse-2):                *)
(*   - SubscriptionExecutionCache   (src/subscription/execution-cache.ts)  *)
(*   - HTTPServer webhook ingestion (src/server/http.ts, handleWebhookEvent)*)
(*   - HTTPServer SSE stream setup  (src/server/http.ts,                    *)
(*                                   processSSESubscription)               *)
(*   - HTTPServer /graphql routing  (src/server/http.ts,                    *)
(*                                   handleGraphQLEndpoint)                *)
(* and of what surrounds it:                                               *)
(*   - the producer's webhook transport (includes/transport-webhook.php)   *)
(*   - the client link GraphQLSSELink   (src/unnamed/part_000)             *)
(* Each component has its own specification; the variables of the other   *)
(* components stay at their idle values.                                   *)
(***************************************************************************)
EXTENDS Integers, Sequences, FiniteSets, TLC

VARIABLES
    \* --- cache key computation (generateCacheKey on two requests) ---
    subA, subB, keyA, keyB, kphase,
    \* --- SubscriptionExecutionCache ---
    now,                \* Date.now()
    cache,              \* this.cache: key -> ExecutionResult
    pendingExecutions,  \* this.pendingExecutions: key -> PendingExecution
    execs,              \* the PendingExecution objects / executor invocations
    calls,              \* the executeWithDeduplication invocations
    clears,             \* number of clear() calls made so far
    \* --- webhook ingestion (POST /webhook) ---
    nodeEnv,            \* process.env.NODE_ENV
    webhookSecretEnv,   \* process.env.WEBHOOK_SECRET
    started,            \* HTTPServer.start() has completed
    hreq,               \* the webhook request handled last
    hres,               \* what handleWebhookEvent did for it
    \* --- SSE streams (processSSESubscription) ---
    conns,              \* the connections and their handlers
    registry,           \* the subscription ids the subscription manager holds
    \* --- the /graphql endpoint (handleGraphQLEndpoint) ---
    greq,               \* the /graphql request handled last
    gres,               \* what its handler did
    \* --- from a webhook to the streams ---
    bus,                \* the messages published to the bus and not yet handled
    ingests,            \* number of webhooks ingested so far
    dispatches,         \* per executeWithDeduplication call: the subscription it serves
    \* --- the producer's webhook transport (transport-webhook.php) ---
    wpEnv,              \* wp_get_environment_type() and WPGRAPHQL_SSE_WEBHOOK_SECRET
    webhook_queue,      \* $wpgraphql_sse_webhook_queue of the running request
    deliveries,         \* per notification: its sends and its scheduled retries
    \* --- the client link (GraphQLSSELink) ---
    sseStream,          \* what the server wrote to the response body
    unread,             \* the part of it the reader has not returned yet
    observer,           \* the notifications the observer received, in order
    linkPc              \* where startSubscription is

keyVars   == <<subA, subB, keyA, keyB, kphase>>
cacheVars == <<now, cache, pendingExecutions, execs, calls, clears>>
hookVars  == <<nodeEnv, webhookSecretEnv, started, hreq, hres>>
sseVars   == <<conns, registry>>
gqlVars   == <<greq, gres>>
deliveryVars == <<bus, ingests, dispatches>>
producerVars == <<wpEnv, webhook_queue, deliveries>>
clientVars == <<sseStream, unread, observer, linkPc>>
vars      == <<keyVars, cacheVars, hookVars, sseVars, gqlVars, deliveryVars, producerVars, clientVars>>

otherThanKey      == <<cacheVars, hookVars, sseVars, gqlVars, deliveryVars, producerVars, clientVars>>
otherThanCache    == <<keyVars, hookVars, sseVars, gqlVars, deliveryVars, producerVars, clientVars>>
otherThanHook     == <<keyVars, cacheVars, sseVars, gqlVars, deliveryVars, producerVars, clientVars>>
otherThanSSE      == <<keyVars, cacheVars, hookVars, gqlVars, deliveryVars, producerVars, clientVars>>
otherThanGraphQL  == <<keyVars, cacheVars, hookVars, sseVars, deliveryVars, producerVars, clientVars>>
\* the delivery path runs the cache and the streams as well
otherThanDelivery == <<keyVars, hookVars, gqlVars, producerVars, clientVars>>
otherThanProducer == <<keyVars, cacheVars, hookVars, sseVars, gqlVars, deliveryVars, clientVars>>
otherThanClient   == <<keyVars, cacheVars, hookVars, sseVars, gqlVars, deliveryVars, producerVars>>

---------------------------------------------------------------------------
(* JavaScript values that occur in a user context.                         *)

Undefined == [t |-> "undefined", n |-> 0, s |-> ""]
Null      == [t |-> "null",      n |-> 0, s |-> ""]
Num(k)    == [t |-> "number",    n |-> k, s |-> ""]
Str(x)    == [t |-> "string",    n |-> 0, s |-> x]

\* ToBoolean: undefined, null, 0 and "" are falsy.
Truthy(v) ==
    CASE v.t = "undefined" -> FALSE
      [] v.t = "null"      -> FALSE
      [] v.t = "number"    -> v.n # 0
      [] v.t = "string"    -> v.s # ""

\* a || b
OrElse(a, b) == IF Truthy(a) THEN a ELSE b

\* ToString of the numbers the model uses (template literal `u${userId}`).
NumToString(k) == CASE k = 0 -> "0" [] k = 7 -> "7" [] OTHER -> "n"

JsToString(v) ==
    CASE v.t = "number" -> NumToString(v.n)
      [] v.t = "string" -> v.s
      [] OTHER          -> v.t

\* An optional array: absent (undefined) or a sequence of strings.
NoArray      == [present |-> FALSE, items |-> <<>>]
ArrayOf(seq) == [present |-> TRUE,  items |-> seq]

\* UTF-16 code unit order of the one-letter names the model uses.
CodeUnit(ch) == CASE ch = "a" -> 97 [] ch = "b" -> 98 [] ch = "c" -> 99 [] OTHER -> 122

RECURSIVE InsertSorted(_, _)
InsertSorted(x, seq) ==
    IF seq = <<>> THEN <<x>>
    ELSE IF CodeUnit(x) <= CodeUnit(Head(seq)) THEN <<x>> \o seq
    ELSE <<Head(seq)>> \o InsertSorted(x, Tail(seq))

\* [...arr].sort() on strings
RECURSIVE SortStrings(_)
SortStrings(seq) ==
    IF seq = <<>> THEN <<>> ELSE InsertSorted(Head(seq), SortStrings(Tail(seq)))

Range(seq) == {seq[i] : i \in 1..Len(seq)}

---------------------------------------------------------------------------
(* CacheableSubscription and generateCacheKey.                             *)

NoUserContext ==
    [present |-> FALSE, userId |-> Undefined, userRoles |-> NoArray,
     capabilities |-> NoArray, isAuthenticated |-> FALSE]

UserContext(uid, roles, caps, auth) ==
    [present |-> TRUE, userId |-> uid, userRoles |-> roles,
     capabilities |-> caps, isAuthenticated |-> auth]

\* normalizeUserContext: the object that is serialised into the hashed payload.
\* `shape` tells the one-field object {isAuthenticated:false} from the
\* four-field object.
MutNormalizeDropRoles(userContext) ==
    IF ~userContext.present
    THEN [shape |-> "bare", userId |-> Null, userRoles |-> <<>>,
          capabilities |-> <<>>, isAuthenticated |-> FALSE]
    ELSE [shape |-> "full",
          userId |-> OrElse(userContext.userId, Null),
          userRoles |-> <<>>,
          capabilities |-> IF userContext.capabilities.present
                           THEN SortStrings(userContext.capabilities.items) ELSE <<>>,
          isAuthenticated |-> userContext.isAuthenticated]

normalizeUserContext(userContext) ==
    IF ~userContext.present
    THEN [shape |-> "bare", userId |-> Null, userRoles |-> <<>>,
          capabilities |-> <<>>, isAuthenticated |-> FALSE]
    ELSE [shape |-> "full",
          userId |-> OrElse(userContext.userId, Null),
          userRoles |-> IF userContext.userRoles.present
                        THEN SortStrings(userContext.userRoles.items) ELSE <<>>,
          capabilities |-> IF userContext.capabilities.present
                           THEN SortStrings(userContext.capabilities.items) ELSE <<>>,
          isAuthenticated |-> userContext.isAuthenticated]

\* query.replace(/\s+/g, ' ').trim() on a query given as a sequence of
\* characters, " " and "\n" being the whitespace characters.
IsSpace(ch) == ch \in {" ", "\n"}

RECURSIVE CollapseSpaces(_)
CollapseSpaces(q) ==
    IF q = <<>> THEN <<>>
    ELSE IF IsSpace(Head(q))
         THEN IF Tail(q) # <<>> /\ IsSpace(Head(Tail(q)))
              THEN CollapseSpaces(Tail(q))
              ELSE <<" ">> \o CollapseSpaces(Tail(q))
         ELSE <<Head(q)>> \o CollapseSpaces(Tail(q))

Trim(q) ==
    LET a == IF q # <<>> /\ IsSpace(Head(q)) THEN Tail(q) ELSE q
    IN  IF a # <<>> /\ IsSpace(a[Len(a)]) THEN SubSeq(a, 1, Len(a) - 1) ELSE a

NormalizeQuery(q) == Trim(CollapseSpaces(q))

\* userIndicator: isAuthenticated ? `u${userId || 'auth'}` : 'anon'
UserIndicator(userContext) ==
    IF userContext.present /\ userContext.isAuthenticated
    THEN <<"u", JsToString(OrElse(userContext.userId, Str("auth")))>>
    ELSE <<"anon">>

\* An optional object: absent, or its members <<name, value>> in insertion order.
NoObject        == [present |-> FALSE, members |-> <<>>]
ObjectOf(seq)   == [present |-> TRUE,  members |-> seq]

\* subscription.variables || {}
VariablesOrEmpty(variables) == IF variables.present THEN variables.members ELSE <<>>

\* JSON.stringify(payload): object members are written in insertion order,
\* so `variables` (a sequence of <<name, value>> members) keeps its order.
\* The 16-hex-digit digest is taken as collision-free: `hash` is the
\* serialised payload itself.
generateCacheKey(subscription) ==
    [hash |-> [query         |-> NormalizeQuery(subscription.query),
               variables     |-> VariablesOrEmpty(subscription.variables),
               operationName |-> OrElse(subscription.operationName, Null),
               userContext   |-> normalizeUserContext(subscription.userContext)],
     userIndicator |-> UserIndicator(subscription.userContext)]

---------------------------------------------------------------------------
(* Inputs of the key computation: two requests with the same query and     *)
(* operationName, every combination of the other fields.                   *)

Queries        == { <<"q">>, <<"q", " ", " ", "x">> }
OperationNames == { Undefined, Str("Op") }
VariableSets   == { NoObject,
                    ObjectOf(<< <<"x", 1>>, <<"y", 2>> >>),
                    ObjectOf(<< <<"y", 2>>, <<"x", 1>> >>) }
UserIds        == { Undefined, Num(0), Str(""), Num(7) }
RoleArrays     == { NoArray, ArrayOf(<<>>), ArrayOf(<<"a">>), ArrayOf(<<"b">>),
                    ArrayOf(<<"a", "b">>), ArrayOf(<<"b", "a">>) }
CapArrays      == { NoArray, ArrayOf(<<"c">>) }

UserContexts ==
    { NoUserContext } \cup
    { UserContext(uid, roles, caps, auth) :
        uid \in UserIds, roles \in RoleArrays, caps \in CapArrays, auth \in BOOLEAN }

Subscription(q, v, op, uc) ==
    [query |-> q, variables |-> v, operationName |-> op, userContext |-> uc]

NoKey == [hash |-> <<>>, userIndicator |-> <<>>]

InitKey ==
    /\ kphase = "input"
    /\ \E q \in Queries, op \in OperationNames :
         /\ \E v \in VariableSets, uc \in UserContexts : subA = Subscription(q, v, op, uc)
         /\ \E v \in VariableSets, uc \in UserContexts : subB = Subscription(q, v, op, uc)
    /\ keyA = NoKey
    /\ keyB = NoKey

\* generateCacheKey is applied to both requests.
ComputeKeys ==
    /\ kphase = "input"
    /\ kphase' = "computed"
    /\ keyA' = generateCacheKey(subA)
    /\ keyB' = generateCacheKey(subB)
    /\ UNCHANGED <<subA, subB>>
    /\ UNCHANGED otherThanKey

KeyIdle ==
    /\ kphase = "idle"
    /\ subA = Subscription(<<>>, NoObject, Undefined, NoUserContext)
    /\ subB = Subscription(<<>>, NoObject, Undefined, NoUserContext)
    /\ keyA = NoKey
    /\ keyB = NoKey

---------------------------------------------------------------------------
(* SubscriptionExecutionCache.                                             *)

MaxCalls == 3       \* executeWithDeduplication invocations in a run
MaxTime  == 2       \* the clock runs from 0 to MaxTime
TtlMs    == 1       \* this.ttlMs, in clock ticks
MaxClears == 1      \* clear() calls in a run

Calls   == 1..MaxCalls
ExecIds == 1..MaxCalls

Q1 == <<"q">>

\* The requests the callers submit: an anonymous one, two that differ only
\* in the order of the roles, and one with a smaller role set.
ReqAnon     == Subscription(Q1, NoObject, Undefined, NoUserContext)
ReqRolesAB  == Subscription(Q1, NoObject, Undefined,
                   UserContext(Num(7), ArrayOf(<<"a", "b">>), NoArray, TRUE))
ReqRolesBA  == Subscription(Q1, NoObject, Undefined,
                   UserContext(Num(7), ArrayOf(<<"b", "a">>), NoArray, TRUE))
ReqRoleA    == Subscription(Q1, NoObject, Undefined,
                   UserContext(Num(7), ArrayOf(<<"a">>), NoArray, TRUE))
CacheRequests == { ReqAnon, ReqRolesAB, ReqRolesBA, ReqRoleA }

\* An authenticated request whose userId is a string that ends in "_anon".
ReqUserXAnon == Subscription(Q1, NoObject, Undefined,
                    UserContext(Str("x_anon"), NoArray, NoArray, TRUE))

\* The requests submitted where the statistics are looked at.
StatsRequests == { ReqAnon, ReqRoleA, ReqUserXAnon }

Keys == { generateCacheKey(r) : r \in CacheRequests \cup StatsRequests }

\* ExecutionResult {data, errors?, timestamp}.  `data` of a successful
\* execution is the value its executor invocation produced (one value per
\* invocation); `exec` records the invocation the result came from.
NoResult == [present |-> FALSE, data |-> 0, errors |-> FALSE, timestamp |-> 0, exec |-> 0]

SuccessResult(e, startTime) ==
    [present |-> TRUE, data |-> e, errors |-> FALSE, timestamp |-> startTime, exec |-> e]

ErrorResult(e, startTime) ==
    [present |-> TRUE, data |-> 0, errors |-> TRUE, timestamp |-> startTime, exec |-> e]

\* `startedAfter` is the number of clear() calls made before the executor
\* was started.
NoExec ==
    [state |-> "unused", key |-> NoKey, req |-> ReqAnon, owner |-> 0, startTime |-> 0,
     startedAfter |-> 0, subscribers |-> {}, result |-> NoResult]

IdleCall ==
    [pc |-> "idle", req |-> ReqAnon, key |-> NoKey, exec |-> 0,
     result |-> NoResult, ranExecutor |-> FALSE, via |-> "none", overlapped |-> {}]

InitCache ==
    /\ now = 0
    /\ cache = [k \in Keys |-> NoResult]
    /\ pendingExecutions = [k \in Keys |-> 0]
    /\ execs = [e \in ExecIds |-> NoExec]
    /\ calls = [c \in Calls |-> IdleCall]
    /\ clears = 0

\* The comparison of the age with ttlMs, turned around.
MutIsLiveReversed(entry) == entry.present /\ (now - entry.timestamp) > TtlMs

\* (Date.now() - cachedResult.timestamp) < this.ttlMs
IsLive(entry) == entry.present /\ (now - entry.timestamp) < TtlMs

\* this.pendingExecutions.get(cacheKey): the execution joined, 0 if none.
MutPendingNeverFound(key) == 0

\* A lookup that returns a pending execution whatever its key.
MutPendingAnyKey(key) ==
    IF \E k \in Keys : pendingExecutions[k] # 0
    THEN pendingExecutions[CHOOSE k \in Keys : pendingExecutions[k] # 0]
    ELSE 0

PendingFor(key) == pendingExecutions[key]

\* The calls that have been invoked and have not returned yet, on `key`.
Outstanding(key) ==
    { d \in Calls : calls[d].pc \in {"awaitOwner", "awaitJoin"} /\ calls[d].key = key }

NextExecId == Cardinality({ e \in ExecIds : execs[e].state # "unused" }) + 1

\* executeWithDeduplication up to its first await, on the cache alone.
InvokeCall(c, r) ==
    LET key    == generateCacheKey(r)
        cached == cache[key]
        pend   == PendingFor(key)
        base   == [calls[c] EXCEPT !.req = r, !.key = key,
                                   !.overlapped = Outstanding(key)]
    IN
    /\ calls[c].pc = "idle"
    /\ \A d \in Calls : d < c => calls[d].pc # "idle"
    /\ IF IsLive(cached)
       THEN \* 1. recent cached result
            /\ calls' = [calls EXCEPT ![c] =
                            [base EXCEPT !.pc = "done", !.result = cached, !.via = "cache"]]
            /\ UNCHANGED <<cache, pendingExecutions, execs>>
       ELSE IF pend # 0
       THEN \* 2. join the pending execution
            /\ execs' = [execs EXCEPT ![pend].subscribers = @ \cup {c}]
            /\ calls' = [calls EXCEPT ![c] =
                            [base EXCEPT !.pc = "awaitJoin", !.exec = pend, !.via = "join"]]
            /\ UNCHANGED <<cache, pendingExecutions>>
       ELSE \* 3. execute now: executeAndCache runs the executor at once
            LET e == NextExecId IN
            /\ execs' = [execs EXCEPT ![e] =
                            [state |-> "running", key |-> key, req |-> r, owner |-> c,
                             startTime |-> now, startedAfter |-> clears,
                             subscribers |-> {c},
                             result |-> NoResult]]
            /\ pendingExecutions' = [pendingExecutions EXCEPT ![key] = e]
            /\ calls' = [calls EXCEPT ![c] =
                            [base EXCEPT !.pc = "awaitOwner", !.exec = e, !.via = "exec",
                                         !.ranExecutor = TRUE]]
            /\ UNCHANGED cache
    /\ UNCHANGED <<now, clears>>

\* executeWithDeduplication called by a subscriber.
Invoke(c, r) ==
    /\ InvokeCall(c, r)
    /\ UNCHANGED otherThanCache

\* An executeAndCache that stamps the entry with the time the executor
\* settled.
MutSettleStampsSettleTime(e, fails) ==
    LET x   == execs[e]
        res == IF fails THEN ErrorResult(e, now) ELSE SuccessResult(e, now)
    IN
    /\ x.state = "running"
    /\ execs' = [execs EXCEPT ![e].state = "settled", ![e].result = res]
    /\ cache' = [cache EXCEPT ![x.key] = res]
    /\ UNCHANGED <<now, pendingExecutions, calls, clears>>
    /\ UNCHANGED otherThanCache

\* A catch block that returns the error result without caching it.
MutSettleErrorNotCached(e, fails) ==
    LET x   == execs[e]
        res == IF fails THEN ErrorResult(e, x.startTime)
                        ELSE SuccessResult(e, x.startTime)
    IN
    /\ x.state = "running"
    /\ execs' = [execs EXCEPT ![e].state = "settled", ![e].result = res]
    /\ cache' = IF fails THEN cache ELSE [cache EXCEPT ![x.key] = res]
    /\ UNCHANGED <<now, pendingExecutions, calls, clears>>
    /\ UNCHANGED otherThanCache

\* executeAndCache after `await executor()`: the result, or the error
\* result of the catch block when the executor threw (`fails`), is stamped
\* with startTime and cached.
ExecutorSettle(e, fails) ==
    LET x   == execs[e]
        res == IF fails THEN ErrorResult(e, x.startTime)
                        ELSE SuccessResult(e, x.startTime)
    IN
    /\ x.state = "running"
    /\ execs' = [execs EXCEPT ![e].state = "settled", ![e].result = res]
    /\ cache' = [cache EXCEPT ![x.key] = res]
    /\ UNCHANGED <<now, pendingExecutions, calls, clears>>
    /\ UNCHANGED otherThanCache

\* An owner whose finally block leaves the pending entry in place.
MutOwnerResumeKeepsPending(c) ==
    /\ calls[c].pc = "awaitOwner"
    /\ execs[calls[c].exec].state = "settled"
    /\ calls' = [calls EXCEPT ![c].pc = "done", ![c].result = execs[calls[c].exec].result]
    /\ UNCHANGED <<now, cache, pendingExecutions, execs, clears>>
    /\ UNCHANGED otherThanCache

\* The owner after `await executionPromise`: returns the result; the
\* finally block deletes the pending entry of the key.
OwnerResume(c) ==
    /\ calls[c].pc = "awaitOwner"
    /\ execs[calls[c].exec].state = "settled"
    /\ calls' = [calls EXCEPT ![c].pc = "done", ![c].result = execs[calls[c].exec].result]
    /\ pendingExecutions' = [pendingExecutions EXCEPT ![calls[c].key] = 0]
    /\ UNCHANGED <<now, cache, execs, clears>>
    /\ UNCHANGED otherThanCache

\* A joiner after `await pendingExecution.promise`: returns the result; the
\* finally block removes its id from the subscribers of the joined object.
JoinerResume(c) ==
    /\ calls[c].pc = "awaitJoin"
    /\ execs[calls[c].exec].state = "settled"
    /\ calls' = [calls EXCEPT ![c].pc = "done", ![c].result = execs[calls[c].exec].result]
    /\ execs' = [execs EXCEPT ![calls[c].exec].subscribers = @ \ {c}]
    /\ UNCHANGED <<now, cache, pendingExecutions, clears>>
    /\ UNCHANGED otherThanCache

\* The clock advances.
Tick ==
    /\ now < MaxTime
    /\ now' = now + 1
    /\ UNCHANGED <<cache, pendingExecutions, execs, calls, clears>>
    /\ UNCHANGED otherThanCache

\* A sweep that deletes every entry, whatever its age.
MutCleanupDeletesAll ==
    /\ cache' = [k \in Keys |-> NoResult]
    /\ UNCHANGED <<now, pendingExecutions, execs, calls, clears>>
    /\ UNCHANGED otherThanCache

\* A sweep that also deletes the entries whose age is exactly ttlMs.
MutCleanupDeletesAtTtl ==
    /\ cache' = [k \in Keys |->
                    IF cache[k].present /\ now - cache[k].timestamp >= TtlMs
                    THEN NoResult ELSE cache[k]]
    /\ UNCHANGED <<now, pendingExecutions, execs, calls, clears>>
    /\ UNCHANGED otherThanCache

\* cleanup(): the periodic sweep deletes the entries older than ttlMs.
Cleanup ==
    /\ cache' = [k \in Keys |->
                    IF cache[k].present /\ now - cache[k].timestamp > TtlMs
                    THEN NoResult ELSE cache[k]]
    /\ UNCHANGED <<now, pendingExecutions, execs, calls, clears>>
    /\ UNCHANGED otherThanCache

\* clear(): both maps are emptied.
Clear ==
    /\ clears < MaxClears
    /\ clears' = clears + 1
    /\ cache' = [k \in Keys |-> NoResult]
    /\ pendingExecutions' = [k \in Keys |-> 0]
    /\ UNCHANGED <<now, execs, calls>>
    /\ UNCHANGED otherThanCache

CacheIdle ==
    /\ now = 0
    /\ cache = [k \in Keys |-> NoResult]
    /\ pendingExecutions = [k \in Keys |-> 0]
    /\ execs = [e \in ExecIds |-> NoExec]
    /\ calls = [c \in Calls |-> IdleCall]
    /\ clears = 0

NextCacheNoClear ==
    \/ \E c \in Calls, r \in CacheRequests : Invoke(c, r)
    \/ \E e \in ExecIds, fails \in BOOLEAN : ExecutorSettle(e, fails)
    \/ \E c \in Calls : OwnerResume(c)
    \/ \E c \in Calls : JoinerResume(c)
    \/ Tick
    \/ Cleanup

NextCache ==
    \/ NextCacheNoClear
    \/ Clear

\* The request submitted where the return of the callers is looked at: the
\* calls of a run all contend for one key.
JoinRequests == { ReqAnon }

\* The cache under every operation, clear() included, on JoinRequests.
NextJoin ==
    \/ \E c \in Calls, r \in JoinRequests : Invoke(c, r)
    \/ \E e \in ExecIds, fails \in BOOLEAN : ExecutorSettle(e, fails)
    \/ \E c \in Calls : OwnerResume(c)
    \/ \E c \in Calls : JoinerResume(c)
    \/ Tick
    \/ Cleanup
    \/ Clear

\* The characters of a part of a user indicator.
Chars(text) ==
    CASE text = "anon"   -> <<"a", "n", "o", "n">>
      [] text = "auth"   -> <<"a", "u", "t", "h">>
      [] text = "x_anon" -> <<"x", "_", "a", "n", "o", "n">>
      [] OTHER           -> <<text>>

RECURSIVE Flatten(_)
Flatten(parts) ==
    IF parts = <<>> THEN <<>> ELSE Chars(Head(parts)) \o Flatten(Tail(parts))

\* key.endsWith('_anon') for the key `${hash}_${userIndicator}`; the hash
\* consists of hex digits.
EndsWithAnon(key) ==
    LET tail == <<"_">> \o Flatten(key.userIndicator)
    IN  /\ Len(tail) >= 5
        /\ SubSeq(tail, Len(tail) - 4, Len(tail)) = <<"_", "a", "n", "o", "n">>

\* analyzeUserContexts(): the keys of the cache counted by their ending.
analyzeUserContexts ==
    LET keys == { k \in Keys : cache[k].present }
    IN  [authenticated |-> Cardinality({ k \in keys : ~EndsWithAnon(k) }),
         anonymous     |-> Cardinality({ k \in keys : EndsWithAnon(k) })]

\* getStats()
getStats ==
    [cacheSize |-> Cardinality({ k \in Keys : cache[k].present }),
     pendingExecutions |-> Cardinality({ k \in Keys : pendingExecutions[k] # 0 }),
     userContextBreakdown |-> analyzeUserContexts]

\* The cache without clear(), under the requests of StatsRequests.
NextStats ==
    \/ \E c \in Calls, r \in StatsRequests : Invoke(c, r)
    \/ \E e \in ExecIds, fails \in BOOLEAN : ExecutorSettle(e, fails)
    \/ \E c \in Calls : OwnerResume(c)
    \/ \E c \in Calls : JoinerResume(c)
    \/ Tick
    \/ Cleanup

NextKey == ComputeKeys

---------------------------------------------------------------------------
(* Webhook ingestion: handleWebhookEvent and validateWebhookSignature.     *)

MaxSigLen == 3      \* symbols after the prefix of an X-Webhook-Signature value

DefaultSecret == "dev-secret-key-change-in-production"

NodeEnvs   == { "production", "development" }
SecretEnvs == { Undefined, Str("k1"), Str(DefaultSecret) }

\* Hexadecimal digits; Buffer.from(s, 'hex') reads both cases.
HexDigits == <<"0", "1", "2", "3", "4", "5", "6", "7", "8", "9",
               "a", "b", "c", "d", "e", "f">>

LowerCase(ch) == CASE ch = "C" -> "c" [] ch = "D" -> "d" [] OTHER -> ch

IsHexDigit(ch) == \E i \in 1..Len(HexDigits) : HexDigits[i] = LowerCase(ch)

HexValue(ch) == (CHOOSE i \in 1..Len(HexDigits) : HexDigits[i] = LowerCase(ch)) - 1

\* createHmac('sha256', secret).update(body).digest('hex'): a lower-case hex
\* digest, here of one byte, that is different for different secrets and
\* for different bodies.  `raw` is the hex digit that stands for the bytes
\* of the body.
SecretNibble(secret) == IF secret = DefaultSecret THEN "d" ELSE "c"

HmacHex(secret, raw) == <<SecretNibble(secret), raw>>

\* Buffer.from(text, 'hex'): the bytes of the leading pairs of hex digits;
\* decoding stops at the first pair that is not two hex digits.
RECURSIVE BufferFromHex(_)
BufferFromHex(text) ==
    IF Len(text) >= 2 /\ IsHexDigit(text[1]) /\ IsHexDigit(text[2])
    THEN <<16 * HexValue(text[1]) + HexValue(text[2])>>
             \o BufferFromHex(SubSeq(text, 3, Len(text)))
    ELSE <<>>

\* text.split('=')
RECURSIVE SplitOnEquals(_)
SplitOnEquals(text) ==
    IF \E i \in 1..Len(text) : text[i] = "="
    THEN LET i == CHOOSE j \in 1..Len(text) :
                      text[j] = "=" /\ \A m \in 1..(j - 1) : text[m] # "="
         IN  <<SubSeq(text, 1, i - 1)>> \o SplitOnEquals(SubSeq(text, i + 1, Len(text)))
    ELSE <<text>>

\* A request header: absent, or its text as a sequence of symbols.  The
\* words "sha256" and "sha1" are one symbol each.
NoHeader       == [present |-> FALSE, text |-> <<>>]
HeaderOf(text) == [present |-> TRUE,  text |-> text]

\* const webhookSecret = process.env.WEBHOOK_SECRET || 'dev-secret-key-...'
EffectiveSecret == OrElse(webhookSecretEnv, Str(DefaultSecret)).s

\* validateWebhookSignature(req, body)
validateWebhookSignature(header, raw) ==
    IF nodeEnv # "production" /\ EffectiveSecret = DefaultSecret
    THEN TRUE                                   \* validation skipped
    ELSE IF ~header.present \/ header.text = <<>>
    THEN FALSE                                  \* missing header
    ELSE LET parts     == SplitOnEquals(header.text)
             algorithm == parts[1]
             signature == IF Len(parts) >= 2 THEN parts[2] ELSE <<>>
         IN  IF algorithm # <<"sha256">> \/ signature = <<>>
             THEN FALSE                         \* invalid format
             ELSE LET signatureBuffer == BufferFromHex(signature)
                      expectedBuffer  == BufferFromHex(HmacHex(EffectiveSecret, raw))
                  IN  IF Len(signatureBuffer) # Len(expectedBuffer)
                      THEN FALSE
                      ELSE signatureBuffer = expectedBuffer   \* timingSafeEqual

\* The value of eventData.channels: undefined, a string, or an array.
NoChannels        == [kind |-> "undefined", items |-> <<>>]
ChannelString     == [kind |-> "string",    items |-> <<>>]
ChannelArray(seq) == [kind |-> "array",     items |-> seq]

\* A request body.  `json` tells what JSON.parse does with it: it throws
\* ("invalid"), returns null ("null") or returns an object with the fields.
Body(raw, json, nodeType, action, nodeId, channels, context, timestamp) ==
    [raw |-> raw, json |-> json, node_type |-> nodeType, action |-> action,
     node_id |-> nodeId, channels |-> channels, context |-> context,
     timestamp |-> timestamp]

PostContext == ObjectOf(<< <<"post_id", Str("5")>> >>)
BothChannels == ChannelArray(<<"postUpdated.5", "postUpdated">>)

Bodies ==
    { Body("0", "invalid", Undefined, Undefined, Undefined, NoChannels, NoObject, Undefined),
      Body("1", "null", Undefined, Undefined, Undefined, NoChannels, NoObject, Undefined),
      Body("2", "object", Str("post"), Str("UPDATE"), Str("5"), BothChannels,
           PostContext, Num(7)),
      Body("3", "object", Str("post"), Str("UPDATE"), Str("5"), NoChannels,
           PostContext, Num(7)),
      Body("4", "object", Str("post"), Str("UPDATE"), Str("5"), ChannelString,
           PostContext, Num(7)),
      Body("5", "object", Str("post"), Str("UPDATE"), Str("5"), ChannelArray(<<>>),
           PostContext, Num(7)),
      Body("6", "object", Str("post"), Str("UPDATE"), Undefined, BothChannels,
           PostContext, Num(7)),
      Body("7", "object", Str("post"), Str("UPDATE"), Num(0), BothChannels,
           PostContext, Num(7)),
      Body("8", "object", Str("post"), Num(7), Str("5"), BothChannels,
           PostContext, Num(7)),
      Body("9", "object", Str("post"), Str("UPDATE"), Num(7),
           ChannelArray(<<"postUpdated">>),
           ObjectOf(<< <<"id", Str("x")>>, <<"action", Str("y")>> >>), Undefined),
      Body("a", "object", Undefined, Str("UPDATE"), Str("5"), BothChannels,
           NoObject, Undefined),
      Body("b", "object", Str("post"), Undefined, Str("5"), BothChannels,
           NoObject, Undefined),
      Body("e", "object", Str("post"), Num(7), Str("5"), NoChannels,
           PostContext, Num(7)) }

\* The symbols a signature value for body `b` is made of: the digest digits
\* of both secrets (one also in upper case), the digit of the body and of
\* another body, "=" and a character that is no hex digit.
SigSymbols(b) == { "c", "d", "C", b.raw, IF b.raw = "2" THEN "3" ELSE "2", "=", "z" }

RECURSIVE SeqsUpTo(_, _)
SeqsUpTo(S, n) ==
    IF n = 0 THEN { <<>> }
    ELSE LET shorter == SeqsUpTo(S, n - 1)
         IN  shorter \cup { Append(t, x) : t \in shorter, x \in S }

SigPrefixes == { <<"sha256", "=">>, <<"sha1", "=">>, <<"sha256">>, <<>> }

HeadersFor(b) ==
    { NoHeader } \cup
    { HeaderOf(p \o t) : p \in SigPrefixes, t \in SeqsUpTo(SigSymbols(b), MaxSigLen) }

\* {id, action, timestamp, ...context}: a member of `context` replaces the
\* member of the same name, or is added after the others.
RECURSIVE SpreadInto(_, _)
SpreadInto(members, more) ==
    IF more = <<>> THEN members
    ELSE LET m == Head(more)
             replaced ==
                 IF \E i \in 1..Len(members) : members[i][1] = m[1]
                 THEN [i \in 1..Len(members) |->
                          IF members[i][1] = m[1] THEN m ELSE members[i]]
                 ELSE Append(members, m)
         IN  SpreadInto(replaced, Tail(more))

DateNow == Str("Date.now()")

subscriptionPayload(b) ==
    SpreadInto(<< <<"id", Str(JsToString(b.node_id))>>,
                  <<"action", b.action>>,
                  <<"timestamp", OrElse(b.timestamp, DateNow)>> >>,
               VariablesOrEmpty(b.context))

NoRequest == [present |-> FALSE, body |-> Body("0", "invalid", Undefined, Undefined,
                  Undefined, NoChannels, NoObject, Undefined), header |-> NoHeader,
              failing |-> {}]

\* What a request led to: the response (status, error, and the counts of a
\* 200 response), whether the signature check passed, and the calls of
\* redisClient.publish (attempted, and returned without throwing).
Response(status, error, authenticated, attempts, published, payload, channels_published, total_channels) ==
    [status |-> status, error |-> error, authenticated |-> authenticated,
     attempts |-> attempts, published |-> published, payload |-> payload,
     channels_published |-> channels_published, total_channels |-> total_channels]

NoResponse == Response(0, "", FALSE, <<>>, <<>>, <<>>, 0, 0)

\* The publish loop left at the first publish that throws.
RECURSIVE MutSuccessfulUntilFailure(_, _, _)
MutSuccessfulUntilFailure(channels, failing, i) ==
    IF i > Len(channels) \/ i \in failing THEN <<>>
    ELSE <<channels[i]>> \o MutSuccessfulUntilFailure(channels, failing, i + 1)

\* The channels of the loop whose publish returned, from position i on.
RECURSIVE Successful(_, _, _)
Successful(channels, failing, i) ==
    IF i > Len(channels) THEN <<>>
    ELSE (IF i \in failing THEN <<>> ELSE <<channels[i]>>)
             \o Successful(channels, failing, i + 1)

\* What handleWebhookEvent answers and publishes for body `b` with signature
\* header `header`; `failing` are the positions of the channel list whose
\* redisClient.publish throws.
\* publishCount after the loop, from position i on: one more per publish
\* that returned.
RECURSIVE publishCount(_, _, _)
publishCount(channels, failing, i) ==
    IF i > Len(channels) THEN 0
    ELSE (IF i \in failing THEN 0 ELSE 1) + publishCount(channels, failing, i + 1)

WebhookResponse(b, header, failing) ==
    IF b.json = "invalid"
    THEN Response(500, "Internal Server Error", FALSE, <<>>, <<>>, <<>>, 0, 0)
    ELSE IF ~validateWebhookSignature(header, b.raw)
    THEN Response(401, "Unauthorized", FALSE, <<>>, <<>>, <<>>, 0, 0)
    ELSE IF b.json = "null"
    THEN Response(500, "Internal Server Error", TRUE, <<>>, <<>>, <<>>, 0, 0)
    ELSE IF ~Truthy(b.node_type) \/ ~Truthy(b.action) \/ ~Truthy(b.node_id)
    THEN Response(400, "Invalid event format", TRUE, <<>>, <<>>, <<>>, 0, 0)
    ELSE IF b.action.t # "string"
    THEN Response(500, "Internal Server Error", TRUE, <<>>, <<>>, <<>>, 0, 0)
    ELSE IF b.channels.kind # "array" \/ b.channels.items = <<>>
    THEN Response(400, "Missing channels", TRUE, <<>>, <<>>, <<>>, 0, 0)
    ELSE Response(200, "", TRUE, b.channels.items,
                  Successful(b.channels.items, failing, 1), subscriptionPayload(b),
                  publishCount(b.channels.items, failing, 1), Len(b.channels.items))

InitHook ==
    /\ nodeEnv \in NodeEnvs
    /\ webhookSecretEnv \in SecretEnvs
    /\ started = FALSE
    /\ hreq = NoRequest
    /\ hres = NoResponse

\* HTTPServer.start(): connects to Redis and listens.
Start ==
    /\ ~started
    /\ started' = TRUE
    /\ UNCHANGED <<nodeEnv, webhookSecretEnv, hreq, hres>>
    /\ UNCHANGED otherThanHook

\* handleWebhookEvent for one POST /webhook request: any body, any
\* signature header, any set of failing publishes.
HandleWebhookEvent ==
    /\ started
    /\ ~hreq.present
    /\ \E b \in Bodies, failing \in SUBSET (1..2) :
         \E header \in HeadersFor(b) :
            /\ hreq' = [present |-> TRUE, body |-> b, header |-> header,
                        failing |-> failing]
            /\ hres' = WebhookResponse(b, header, failing)
    /\ UNCHANGED <<nodeEnv, webhookSecretEnv, started>>
    /\ UNCHANGED otherThanHook

\* The response has been sent; the server waits for the next request.
RequestCompleted ==
    /\ hreq.present
    /\ hreq' = NoRequest
    /\ hres' = NoResponse
    /\ UNCHANGED <<nodeEnv, webhookSecretEnv, started>>
    /\ UNCHANGED otherThanHook

HookIdle ==
    /\ nodeEnv = "development"
    /\ webhookSecretEnv = Undefined
    /\ started = FALSE
    /\ hreq = NoRequest
    /\ hres = NoResponse

NextHook ==
    \/ Start
    \/ RequestCompleted
    \/ HandleWebhookEvent

---------------------------------------------------------------------------
(* SSE streams: processSSESubscription, with the subscription manager as   *)
(* the registry of section 4.3 (create, remove, dispatch).                 *)

MaxConns  == 2      \* connections in a run
MaxEvents == 2      \* bus events dispatched in a run

ConnIds == 1..MaxConns

\* One block written to the response: its `event:` line and what it carries.
Frame(event, carries) == [event |-> event, carries |-> carries]

EstablishedFrame == Frame("next", "established")     \* http.ts 567-569
CreateErrorFrame == Frame("next", "createError")      \* http.ts 594-595
CompleteFrame    == Frame("complete", "none")         \* http.ts 596-597
ResultFrame      == Frame("next", "result")           \* written by a dispatch

IdleConn ==
    [pc |-> "idle", status |-> 0, frames |-> <<>>, closed |-> FALSE,
     listening |-> FALSE, removeCalled |-> FALSE, ended |-> FALSE,
     writtenAfterClose |-> FALSE]

\* subscriptionManager.createSubscription has registered the subscription.
RegistryCreate(reg, id) == reg \cup {id}

\* subscriptionManager.removeSubscription: idempotent.
RegistryRemove(reg, id) == reg \ {id}

\* The subscriptions a bus event is delivered to.
RegistryMatches(reg) == reg

InitSSE ==
    /\ conns = [c \in ConnIds |-> IdleConn]
    /\ registry = {}

\* processSSESubscription up to `await createSubscription`: an invalid
\* request is answered 400; for a valid one the stream headers and the
\* initial event are written.
OpenStream(c, valid) ==
    /\ conns[c].pc = "idle"
    /\ \A d \in ConnIds : d < c => conns[d].pc # "idle"
    /\ conns' = [conns EXCEPT ![c] =
                    IF valid
                    THEN [@ EXCEPT !.pc = "awaitCreate", !.status = 200,
                                   !.frames = <<EstablishedFrame>>]
                    ELSE [@ EXCEPT !.pc = "rejected", !.status = 400, !.ended = TRUE]]
    /\ UNCHANGED registry
    /\ UNCHANGED otherThanSSE

\* createSubscription resolved: the handler goes on and registers the
\* 'close' and 'error' listeners.
CreateResolved(c) ==
    /\ conns[c].pc = "awaitCreate"
    /\ registry' = RegistryCreate(registry, c)
    /\ conns' = [conns EXCEPT ![c].pc = "streaming", ![c].listening = TRUE]
    /\ UNCHANGED otherThanSSE

\* A catch block that writes the error and complete events and leaves the
\* response open.
MutCreateRejectedLeavesOpen(c) ==
    /\ conns[c].pc = "awaitCreate"
    /\ conns' = [conns EXCEPT ![c].pc = "ended",
                              ![c].frames = @ \o <<CreateErrorFrame, CompleteFrame>>,
                              ![c].writtenAfterClose = conns[c].closed]
    /\ UNCHANGED registry
    /\ UNCHANGED otherThanSSE

\* createSubscription rejected: the catch block writes an error event and
\* the complete event, ends the response and returns.
CreateRejected(c) ==
    /\ conns[c].pc = "awaitCreate"
    /\ conns' = [conns EXCEPT ![c].pc = "ended", ![c].ended = TRUE,
                              ![c].frames = @ \o <<CreateErrorFrame, CompleteFrame>>,
                              ![c].writtenAfterClose = conns[c].closed]
    /\ UNCHANGED registry
    /\ UNCHANGED otherThanSSE

\* The client connection closes or errors: the response emits 'close' (or
\* 'error'), once, to the listeners registered at that moment.
ClientClose(c) ==
    /\ conns[c].pc \in {"awaitCreate", "streaming"}
    /\ ~conns[c].closed
    /\ IF conns[c].listening
       THEN /\ registry' = RegistryRemove(registry, c)
            /\ conns' = [conns EXCEPT ![c].closed = TRUE, ![c].removeCalled = TRUE]
       ELSE /\ conns' = [conns EXCEPT ![c].closed = TRUE]
            /\ UNCHANGED registry
    /\ UNCHANGED otherThanSSE

\* A bus event that matches every subscription: the registry writes one
\* result event to the stream of each subscription it holds.
Dispatch ==
    /\ registry # {}
    /\ \A c \in ConnIds : Len(conns[c].frames) < MaxEvents + 1
    /\ conns' = [c \in ConnIds |->
                    IF c \in RegistryMatches(registry)
                    THEN [conns[c] EXCEPT !.frames = @ \o <<ResultFrame>>,
                                          !.writtenAfterClose = @ \/ conns[c].closed]
                    ELSE conns[c]]
    /\ UNCHANGED registry
    /\ UNCHANGED otherThanSSE

NextSSE ==
    \/ \E c \in ConnIds, valid \in BOOLEAN : OpenStream(c, valid)
    \/ \E c \in ConnIds : CreateResolved(c)
    \/ \E c \in ConnIds : CreateRejected(c)
    \/ \E c \in ConnIds : ClientClose(c)
    \/ Dispatch

SSEIdle ==
    /\ conns = [c \in ConnIds |-> IdleConn]
    /\ registry = {}

---------------------------------------------------------------------------
(* The /graphql endpoint: handleRequest, handleGraphQLEndpoint and the     *)
(* handlers it routes to, up to the call of createSubscription.            *)

\* An operation definition of a parsed document.
Operation(kind, name, required) == [kind |-> kind, name |-> name, required |-> required]

\* A query text: whether graphql's parse() accepts it, whether the text
\* matches /^\s*subscription\s+/ once lower-cased and stripped of comment
\* lines, and the operations it defines.
Document(syntaxOk, startsWithSubscription, ops) ==
    [present |-> TRUE, syntaxOk |-> syntaxOk,
     startsWithSubscription |-> startsWithSubscription, ops |-> ops]

NoDocument == [present |-> FALSE, syntaxOk |-> FALSE,
               startsWithSubscription |-> FALSE, ops |-> <<>>]

Documents ==
    { \* "subscription {"
      Document(FALSE, TRUE, <<>>),
      \* "query {"
      Document(FALSE, FALSE, <<>>),
      \* "subscription { postUpdated { id } }"
      Document(TRUE, TRUE, <<Operation("subscription", "", <<>>)>>),
      \* "subscription{postUpdated{id}}"
      Document(TRUE, FALSE, <<Operation("subscription", "", <<>>)>>),
      \* "query { posts { id } }"
      Document(TRUE, FALSE, <<Operation("query", "", <<>>)>>),
      \* "mutation { deletePost }"
      Document(TRUE, FALSE, <<Operation("mutation", "", <<>>)>>),
      \* "subscription A { .. } query B { .. }"
      Document(TRUE, TRUE, <<Operation("subscription", "A", <<>>), Operation("query", "B", <<>>)>>),
      \* "query B { .. } subscription A { .. }"
      Document(TRUE, FALSE, <<Operation("query", "B", <<>>), Operation("subscription", "A", <<>>)>>),
      \* "subscription A($id: ID!, $n: Int!) { .. }"
      Document(TRUE, TRUE, <<Operation("subscription", "A", <<"id", "n">>)>>),
      \* "subscription A($id: ID!, $constructor: ID!) { .. }"
      Document(TRUE, TRUE, <<Operation("subscription", "A", <<"id", "constructor">>)>>),
      \* "query B($id: ID!) { .. }"
      Document(TRUE, FALSE, <<Operation("query", "B", <<"id">>)>>) }

\* The `variables` of a request: absent, or the names it binds.
NoVariables       == [present |-> FALSE, names |-> {}]
VariablesOf(names) == [present |-> TRUE, names |-> names]

GraphQLVariables == { NoVariables, VariablesOf({}), VariablesOf({"id"}), VariablesOf({"id", "n"}) }
GraphQLOperationNames == { Undefined, Str("A"), Str("B") }

\* What a request carries, in its body (POST) or its query parameters
\* (GET).  `json`: JSON.parse of the body throws ("invalid"), gives null
\* ("null") or an object; `variablesParse`: JSON.parse of the `variables`
\* query parameter throws or not.
Payload(json, doc, variables, operationName, variablesParse) ==
    [json |-> json, doc |-> doc, variables |-> variables,
     operationName |-> operationName, variablesParse |-> variablesParse]

Payloads ==
    { Payload("invalid", NoDocument, NoVariables, Undefined, "ok"),
      Payload("null", NoDocument, NoVariables, Undefined, "ok") }
    \cup { Payload("object", d, v, op, "ok") :
              d \in Documents \cup {NoDocument}, v \in GraphQLVariables,
              op \in GraphQLOperationNames }
    \cup { Payload("object", d, NoVariables, Undefined, "throws") :
              d \in Documents \cup {NoDocument} }

Methods == { "GET", "POST", "OPTIONS", "PUT" }
MediaTypes == { "text/html", "application/json", "text/event-stream" }

\* config.corsOrigin, the allow-list of origins.
corsOrigin == <<"http://localhost:3000", "https://app.example">>

\* The Origin, Authorization and Cookie headers of a request; Undefined for
\* a header the request does not carry.
Headers(origin, authorization, cookie) ==
    [origin |-> origin, authorization |-> authorization, cookie |-> cookie]

NoHeaders == Headers(Undefined, Undefined, Undefined)

Origins == { Undefined, Str(corsOrigin[1]), Str(corsOrigin[2]), Str("https://other.example") }

RequestHeaders ==
    { Headers(o, a, c) : o \in Origins, a \in { Undefined, Str("Bearer t") },
                         c \in { Undefined, Str("wordpress_logged_in=1") } }

GraphQLRequest(method, accept, payload, headers) ==
    [present |-> TRUE, method |-> method, accept |-> accept, payload |-> payload,
     headers |-> headers]

NoGraphQLRequest ==
    [present |-> FALSE, method |-> "GET", accept |-> {},
     payload |-> Payload("invalid", NoDocument, NoVariables, Undefined, "ok"),
     headers |-> NoHeaders]

\* The value of Access-Control-Allow-Origin computed from the headers of
\* `req` (NoHeaders when the caller has no `req` to pass).
addCORSHeaders(headers) ==
    IF Truthy(headers.origin) /\ headers.origin.s \in Range(corsOrigin)
    THEN headers.origin
    ELSE Str(corsOrigin[1])

\* requestHeaders as the subscription handlers build it: the cookie and
\* authorization headers the request carries.
CapturedHeaders(headers) ==
    [authorization |-> IF Truthy(headers.authorization) THEN headers.authorization ELSE Undefined,
     cookie |-> IF Truthy(headers.cookie) THEN headers.cookie ELSE Undefined]

\* No credentials passed on: `undefined` request context, or {} as
\* forwardHeaders.
NoCredentials == [authorization |-> Undefined, cookie |-> Undefined]

\* A negotiation that takes every Accept header for one of an event stream.
MutNegotiationAlwaysEventStream(req) ==
    [method |-> req.method,
     acceptsHtml |-> "text/html" \in req.accept,
     acceptsJson |-> "application/json" \in req.accept,
     acceptsEventStream |-> TRUE]

\* determineContentNegotiation
determineContentNegotiation(req) ==
    [method |-> req.method,
     acceptsHtml |-> "text/html" \in req.accept,
     acceptsJson |-> "application/json" \in req.accept,
     acceptsEventStream |-> "text/event-stream" \in req.accept]

\* getOperationAST(document, operationName) of graphql-js: without a name
\* the only operation of the document, with a name the operation so named;
\* <<>> stands for null.
getOperationAST(doc, operationName) ==
    IF operationName.t \in {"undefined", "null"}
    THEN IF Len(doc.ops) = 1 THEN <<doc.ops[1]>> ELSE <<>>
    ELSE LET named == { i \in 1..Len(doc.ops) : doc.ops[i].name = operationName.s }
         IN  IF named = {} THEN <<>>
             ELSE <<doc.ops[CHOOSE i \in named : \A j \in named : i <= j]>>

\* One entry of an `errors` array: what its message says and the value of
\* extensions.code ("" when the entry has no extensions).
GraphQLError(about, code) == [about |-> about, code |-> code]

Invalid(errors) == [isValid |-> FALSE, errors |-> errors]
Valid           == [isValid |-> TRUE,  errors |-> <<>>]

\* Names every object has through Object.prototype (those that matter for
\* the variable names of the documents above).
ObjectPrototype == { "constructor", "toString" }

\* The required variables, in declaration order, for which
\* `varName in (graphqlRequest.variables || {})` is false; `in` also finds
\* the names the object inherits.
MissingVariables(required, variables) ==
    LET provided == (IF variables.present THEN variables.names ELSE {})
                        \cup ObjectPrototype
        Missing(v) == v \notin provided
    IN  SelectSeq(required, Missing)

\* A validation that looks at the variables before it looks at the kind of
\* the operation.
MutValidateVariablesFirst(p) ==
    IF p.json = "null" \/ ~p.doc.present \/ ~p.doc.syntaxOk
    THEN Invalid(<<GraphQLError("syntax", "")>>)
    ELSE LET operationAST == getOperationAST(p.doc, p.operationName)
         IN  IF operationAST = <<>>
             THEN Invalid(<<GraphQLError("notFound", "")>>)
             ELSE LET missingVariables ==
                          MissingVariables(operationAST[1].required, p.variables)
                  IN  IF missingVariables # <<>>
                      THEN Invalid([i \in 1..Len(missingVariables) |->
                                       GraphQLError("missingVariable", "")])
                      ELSE IF operationAST[1].kind # "subscription"
                      THEN Invalid(<<GraphQLError("notSubscription: "
                                                    \o operationAST[1].kind, "")>>)
                      ELSE Valid

\* validateSubscription(graphqlRequest)
validateSubscription(p) ==
    IF p.json = "null" \/ ~p.doc.present \/ ~p.doc.syntaxOk
    THEN Invalid(<<GraphQLError("syntax", "")>>)          \* parse() or the access throws
    ELSE LET operationAST == getOperationAST(p.doc, p.operationName)
         IN  IF operationAST = <<>>
             THEN Invalid(<<GraphQLError("notFound", "")>>)
             ELSE IF operationAST[1].kind # "subscription"
             THEN Invalid(<<GraphQLError("notSubscription: " \o operationAST[1].kind, "")>>)
             ELSE LET missingVariables ==
                          MissingVariables(operationAST[1].required, p.variables)
                  IN  IF missingVariables # <<>>
                      THEN Invalid([i \in 1..Len(missingVariables) |->
                                       GraphQLError("missingVariable", "")])
                      ELSE Valid

\* What a handler did to the response: the status and content type of
\* writeHead, the errors of a JSON error body, the blocks written to an
\* event stream, whether validateSubscription ran and its verdict, whether
\* createSubscription was called and whether the request went to WPGraphQL.
GraphQLResponse(status, contentType, errors, frames, validation, createCalled, proxied) ==
    [status |-> status, contentType |-> contentType, errors |-> errors,
     frames |-> frames, validation |-> validation, createCalled |-> createCalled,
     proxied |-> proxied]

NotValidated == [isValid |-> FALSE, errors |-> <<>>, ran |-> FALSE]
Validated(v) == [isValid |-> v.isValid, errors |-> v.errors, ran |-> TRUE]

NoGraphQLResponse == GraphQLResponse(0, "", <<>>, <<>>, NotValidated, FALSE, FALSE)

JsonError(status, about, code) ==
    GraphQLResponse(status, "application/json", <<GraphQLError(about, code)>>, <<>>,
                    NotValidated, FALSE, FALSE)

\* A variant of processSSESubscription that opens the stream before it
\* looks at the verdict.
MutProcessOpensStreamFirst(p) ==
    LET validation == validateSubscription(p)
    IN  GraphQLResponse(200, "text/event-stream", <<>>, <<EstablishedFrame>>,
                        Validated(validation), validation.isValid, FALSE)

\* processSSESubscription up to the call of createSubscription
processSSESubscription(p) ==
    LET validation == validateSubscription(p)
    IN  IF ~validation.isValid
        THEN GraphQLResponse(400, "application/json", validation.errors, <<>>,
                             Validated(validation), FALSE, FALSE)
        ELSE GraphQLResponse(200, "text/event-stream", <<>>, <<EstablishedFrame>>,
                             Validated(validation), TRUE, FALSE)

\* handleSSESubscriptionFromQuery (GET + text/event-stream)
handleSSESubscriptionFromQuery(p) ==
    IF p.variablesParse = "throws"
    THEN JsonError(500, "Failed to process subscription request", "INTERNAL_ERROR")
    ELSE IF ~p.doc.present
    THEN JsonError(400, "Missing query parameter", "MISSING_QUERY")
    ELSE processSSESubscription(p)

\* handleSSESubscription (POST + text/event-stream)
handleSSESubscription(p) ==
    IF p.json = "invalid"
    THEN JsonError(500, "Failed to process subscription request", "INTERNAL_ERROR")
    ELSE processSSESubscription(p)

\* handleSSESubscriptionWithBody
handleSSESubscriptionWithBody(p) ==
    IF p.json = "invalid"
    THEN JsonError(400, "Invalid GraphQL request", "INVALID_REQUEST")
    ELSE processSSESubscription(p)

\* isSubscriptionRequest(body)
isSubscriptionRequest(p) ==
    /\ p.json = "object"
    /\ p.doc.present
    /\ p.doc.startsWithSubscription

\* handleIntrospectionWithBody / handleIntrospectionQuery: the request is
\* proxied to WPGraphQL; a failure is answered with a GraphQL error.
handleIntrospectionWithBody(p, upstreamFails) ==
    IF p.json = "invalid"
    THEN JsonError(400, "Invalid GraphQL request", "INVALID_REQUEST")
    ELSE IF p.json = "null" \/ upstreamFails
    THEN GraphQLResponse(200, "application/json",
                         <<GraphQLError("Failed to process introspection request", "")>>,
                         <<>>, NotValidated, FALSE, p.json # "null")
    ELSE GraphQLResponse(200, "application/json", <<>>, <<>>, NotValidated, FALSE, TRUE)

\* What is known of a response once the handler `handler` has produced
\* `response`: the Allow header, the credentials handed to createSubscription
\* or to the upstream client, and Access-Control-Allow-Origin.  handleRequest
\* sets the latter from the request; processSSESubscription, when it runs,
\* replaces it in writeHead by the value computed from the `req` it was
\* given (`seen`); `credentials` is what the handler passes on.
Handled(handler, response, headers, seen, credentials) ==
    response @@
    [handler |-> handler,
     allow |-> IF response.status = 405 THEN "GET, POST, OPTIONS" ELSE "",
     credentials |-> IF response.createCalled \/ response.proxied
                     THEN credentials ELSE NoCredentials,
     allowOrigin |-> IF response.validation.ran
                     THEN addCORSHeaders(seen) ELSE addCORSHeaders(headers)]

\* handleGraphQLEndpoint
handleGraphQLEndpoint(req, upstreamFails) ==
    LET negotiation == determineContentNegotiation(req)
        p == req.payload
        h == req.headers
    IN  IF negotiation.method = "GET" /\ negotiation.acceptsHtml
        THEN Handled("handleGraphiQL",
                     GraphQLResponse(200, "text/html", <<>>, <<>>, NotValidated, FALSE, FALSE),
                     h, h, NoCredentials)
        ELSE IF negotiation.method = "GET" /\ negotiation.acceptsEventStream
        THEN Handled("handleSSESubscriptionFromQuery",
                     handleSSESubscriptionFromQuery(p), h, h, CapturedHeaders(h))
        ELSE IF negotiation.method = "POST" /\ negotiation.acceptsEventStream
        THEN Handled("handleSSESubscription",
                     handleSSESubscription(p), h, h, CapturedHeaders(h))
        ELSE IF negotiation.method = "POST" /\ negotiation.acceptsJson
        THEN IF isSubscriptionRequest(p)
             THEN Handled("handleSSESubscriptionWithBody",
                          handleSSESubscriptionWithBody(p), h, NoHeaders, NoCredentials)
             ELSE Handled("handleIntrospectionWithBody",
                          handleIntrospectionWithBody(p, upstreamFails), h, h, NoCredentials)
        ELSE Handled("sendMethodNotAllowed",
                     JsonError(405, "Method Not Allowed", ""), h, h, NoCredentials)

\* handleRequest for the path /graphql
handleRequest(req, upstreamFails) ==
    IF req.method = "OPTIONS"
    THEN Handled("preflight",
                 GraphQLResponse(204, "", <<>>, <<>>, NotValidated, FALSE, FALSE),
                 req.headers, req.headers, NoCredentials)
    ELSE handleGraphQLEndpoint(req, upstreamFails)

InitGraphQL ==
    /\ greq = NoGraphQLRequest
    /\ gres = NoGraphQLResponse

\* One request to /graphql, with any method, Accept header and content.
HandleGraphQLRequest ==
    /\ ~greq.present
    /\ \E method \in Methods, accept \in SUBSET MediaTypes, p \in Payloads,
          headers \in RequestHeaders, upstreamFails \in BOOLEAN :
            /\ greq' = GraphQLRequest(method, accept, p, headers)
            /\ gres' = handleRequest(greq', upstreamFails)
    /\ UNCHANGED otherThanGraphQL

\* The handler has returned; the server takes the next request.
GraphQLRequestCompleted ==
    /\ greq.present
    /\ greq' = NoGraphQLRequest
    /\ gres' = NoGraphQLResponse
    /\ UNCHANGED otherThanGraphQL

GraphQLIdle ==
    /\ greq = NoGraphQLRequest
    /\ gres = NoGraphQLResponse

NextGraphQL ==
    \/ HandleGraphQLRequest
    \/ GraphQLRequestCompleted

---------------------------------------------------------------------------
(* From a webhook to the streams: the publish loop of handleWebhookEvent,  *)
(* the registry's channel event of section 4.3, executeWithDeduplication,  *)
(* and the write of the result to the stream.                              *)

MaxIngests == 2     \* webhooks ingested in a run

\* The notification the producer sends, and sends again when it retries.
Notification == CHOOSE b \in Bodies : b.raw = "2"

\* The channel set of the subscription every connection holds.
SubscriptionChannels == Range(Notification.channels.items)

\* The request the registry hands to executeWithDeduplication for it.
SubscriptionRequest == ReqAnon

\* One redisClient.publish of the loop: the channel, and the ingestion it
\* belongs to; `seen` are the subscriptions the registry has dispatched it to.
BusMessage(channel, ingest) == [channel |-> channel, ingest |-> ingest, seen |-> {}]

NoDispatch == [present |-> FALSE, conn |-> 0, ingest |-> 0, channel |-> "",
               delivered |-> FALSE, at |-> 0]

InitDelivery ==
    /\ bus = <<>>
    /\ ingests = 0
    /\ dispatches = [c \in Calls |-> NoDispatch]

DeliveryIdle ==
    /\ bus = <<>>
    /\ ingests = 0
    /\ dispatches = [c \in Calls |-> NoDispatch]

\* handleWebhookEvent for the notification: one bus message per channel
\* whose publish did not throw, in the order of the channel list.
IngestNotification(failing) ==
    LET published == WebhookResponse(Notification, NoHeader, failing).published IN
    /\ ingests < MaxIngests
    /\ ingests' = ingests + 1
    /\ bus' = bus \o [i \in 1..Len(published) |-> BusMessage(published[i], ingests + 1)]
    /\ UNCHANGED dispatches
    /\ UNCHANGED <<cacheVars, sseVars>>
    /\ UNCHANGED otherThanDelivery

\* The subscriptions the oldest bus message matches and has not reached yet.
Unreached == { s \in RegistryMatches(registry) :
                  bus[1].channel \in SubscriptionChannels /\ s \notin bus[1].seen }

\* The registry receives the oldest bus message: for the next matching
\* subscription it calls executeWithDeduplication with an executor of that
\* subscription.
OnChannelEvent(c) ==
    /\ bus # <<>>
    /\ Unreached # {}
    /\ LET s == CHOOSE x \in Unreached : \A y \in Unreached : x <= y IN
       /\ InvokeCall(c, SubscriptionRequest)
       /\ dispatches' = [dispatches EXCEPT ![c] =
                            [present |-> TRUE, conn |-> s, ingest |-> bus[1].ingest,
                             channel |-> bus[1].channel, delivered |-> FALSE, at |-> 0]]
       /\ bus' = [bus EXCEPT ![1].seen = @ \cup {s}]
    /\ UNCHANGED ingests
    /\ UNCHANGED sseVars
    /\ UNCHANGED otherThanDelivery

\* The oldest bus message has reached every subscription it matches.
ChannelEventDone ==
    /\ bus # <<>>
    /\ Unreached = {}
    /\ bus' = Tail(bus)
    /\ UNCHANGED <<ingests, dispatches>>
    /\ UNCHANGED <<cacheVars, sseVars>>
    /\ UNCHANGED otherThanDelivery

\* executeWithDeduplication has returned: the registry routes the result to
\* the stream of the subscription as one `next` event, if it still holds it.
Deliver(c) ==
    /\ dispatches[c].present
    /\ ~dispatches[c].delivered
    /\ calls[c].pc = "done"
    /\ LET s == dispatches[c].conn IN
       IF s \in registry
       THEN conns' = [conns EXCEPT ![s].frames = @ \o <<ResultFrame>>,
                                   ![s].writtenAfterClose = @ \/ conns[s].closed]
       ELSE UNCHANGED conns
    /\ dispatches' = [dispatches EXCEPT ![c].delivered = TRUE, ![c].at = now]
    /\ UNCHANGED <<bus, ingests, registry>>
    /\ UNCHANGED cacheVars
    /\ UNCHANGED otherThanDelivery

NextDelivery ==
    \/ \E c \in ConnIds : OpenStream(c, TRUE)
    \/ \E c \in ConnIds : CreateResolved(c)
    \/ \E failing \in SUBSET (1..2) : IngestNotification(failing)
    \/ \E c \in Calls : OnChannelEvent(c)
    \/ ChannelEventDone
    \/ \E c \in Calls : Deliver(c)
    \/ \E e \in ExecIds, fails \in BOOLEAN : ExecutorSettle(e, fails)
    \/ \E c \in Calls : OwnerResume(c)
    \/ \E c \in Calls : JoinerResume(c)
    \/ Tick

---------------------------------------------------------------------------
(* The producer's webhook transport (includes/transport-webhook.php):      *)
(* notifications are queued during a request, sent without blocking at     *)
(* shutdown, and retried from cron events.                                 *)

MaxWebhooks == 2    \* notifications in a run

ProducerWebhooks == 1..MaxWebhooks

\* What becomes of a request sent to the gateway.
GatewayOutcomes == { "connection failure", "200", "400", "401", "500" }

\* $response_code >= 200 && $response_code < 300
Is2xx(code) == code = "200"

max_attempts == 5

delays == <<30, 60, 120, 240, 480>>

\* $delays[ $attempt_number - 1 ] ?? 480
DelayOf(attempt_number) ==
    IF attempt_number \in 1..Len(delays) THEN delays[attempt_number] ELSE 480

\* A notification not queued yet.
NoDelivery ==
    [queued |-> FALSE, encodes |-> TRUE, initial |-> "none", last |-> "none",
     handled |-> <<>>, scheduled |-> <<>>, pending |-> {}]

\* wp_remote_post: a blocking request returns a WP_Error or the response;
\* a request that does not block returns before the response arrives, with
\* a WP_Error only when the failure was met at once.
wp_remote_post(outcome, blocking, immediate) ==
    IF outcome = "connection failure" /\ (blocking \/ immediate)
    THEN [is_wp_error |-> TRUE, code |-> "none"]
    ELSE [is_wp_error |-> FALSE, code |-> IF blocking THEN outcome ELSE "none"]

\* wpgraphql_sse_send_webhook: whether the request was posted, what the
\* function returns, and whether it called wpgraphql_sse_schedule_retry.
wpgraphql_sse_send_webhook(env, encodes, is_retry, outcome, immediate) ==
    IF env.production /\ env.secretEmpty
    THEN [posted |-> FALSE, returns |-> "null", retry |-> FALSE]
    ELSE IF ~encodes
    THEN [posted |-> FALSE, returns |-> "null", retry |-> FALSE]
    ELSE LET response == wp_remote_post(outcome, is_retry, immediate)
         IN  IF is_retry
             THEN [posted |-> TRUE,
                   returns |-> IF ~response.is_wp_error /\ Is2xx(response.code)
                               THEN "true" ELSE "false",
                   retry |-> FALSE]
             ELSE IF response.is_wp_error
             THEN [posted |-> TRUE, returns |-> "false", retry |-> TRUE]
             ELSE [posted |-> TRUE, returns |-> "true", retry |-> FALSE]

\* What a scheduled retry follows: an attempt the gateway acknowledged or not.
AttemptClass(posted, outcome) ==
    IF posted /\ Is2xx(outcome) THEN "2xx" ELSE "failed"

MutScheduleRetryWithoutLimit(d, attempt_number, after) ==
    [d EXCEPT !.scheduled = Append(@, [attempt |-> attempt_number,
                                       delay |-> DelayOf(attempt_number),
                                       after |-> after]),
              !.pending = @ \cup {attempt_number}]

\* wpgraphql_sse_schedule_retry on the record of one notification.
wpgraphql_sse_schedule_retry(d, attempt_number, after) ==
    IF attempt_number > max_attempts
    THEN d
    ELSE [d EXCEPT !.scheduled = Append(@, [attempt |-> attempt_number,
                                            delay |-> DelayOf(attempt_number),
                                            after |-> after]),
                   !.pending = @ \cup {attempt_number}]

InitProducer ==
    /\ wpEnv \in [production : BOOLEAN, secretEmpty : BOOLEAN]
    /\ webhook_queue = <<>>
    /\ deliveries = [w \in ProducerWebhooks |-> NoDelivery]

ProducerIdle ==
    /\ wpEnv = [production |-> FALSE, secretEmpty |-> FALSE]
    /\ webhook_queue = <<>>
    /\ deliveries = [w \in ProducerWebhooks |-> NoDelivery]

\* wpgraphql_sse_queue_webhook, on the graphql_subscription_event action.
QueueWebhook(w) ==
    /\ ~deliveries[w].queued
    /\ \E encodes \in BOOLEAN :
          deliveries' = [deliveries EXCEPT ![w].queued = TRUE, ![w].encodes = encodes]
    /\ webhook_queue' = Append(webhook_queue, w)
    /\ UNCHANGED wpEnv
    /\ UNCHANGED otherThanProducer

\* The initial send of one queued notification.
InitialSend(d, outcome, immediate) ==
    LET sent == wpgraphql_sse_send_webhook(wpEnv, d.encodes, FALSE, outcome, immediate)
        done == [d EXCEPT !.initial = IF sent.posted THEN outcome ELSE "not sent"]
    IN  IF sent.retry
        THEN wpgraphql_sse_schedule_retry(done, 1, AttemptClass(sent.posted, outcome))
        ELSE done

\* wpgraphql_sse_process_webhook_queue, on shutdown: every queued
\* notification is sent without blocking, then the queue is emptied.
ProcessWebhookQueue ==
    /\ webhook_queue # <<>>
    /\ \E outcomes \in [Range(webhook_queue) -> GatewayOutcomes],
          immediate \in [Range(webhook_queue) -> BOOLEAN] :
          deliveries' = [w \in ProducerWebhooks |->
                            IF w \in Range(webhook_queue)
                            THEN InitialSend(deliveries[w], outcomes[w], immediate[w])
                            ELSE deliveries[w]]
    /\ webhook_queue' = <<>>
    /\ UNCHANGED wpEnv
    /\ UNCHANGED otherThanProducer

\* wpgraphql_sse_handle_retry, run by cron for a scheduled event.
HandleRetry(w) ==
    /\ \E attempt_number \in deliveries[w].pending, outcome \in GatewayOutcomes :
          LET d == deliveries[w]
              sent == wpgraphql_sse_send_webhook(wpEnv, d.encodes, TRUE, outcome, FALSE)
              ran == [d EXCEPT !.pending = @ \ {attempt_number},
                               !.handled = Append(@, attempt_number),
                               !.last = IF sent.posted THEN outcome ELSE "not sent"]
          IN  deliveries' =
                 [deliveries EXCEPT ![w] =
                     IF sent.returns # "true"
                     THEN wpgraphql_sse_schedule_retry(ran, attempt_number + 1,
                              AttemptClass(sent.posted, outcome))
                     ELSE ran]
    /\ UNCHANGED <<wpEnv, webhook_queue>>
    /\ UNCHANGED otherThanProducer

NextProducer ==
    \/ \E w \in ProducerWebhooks : QueueWebhook(w)
    \/ ProcessWebhookQueue
    \/ \E w \in ProducerWebhooks : HandleRetry(w)

---------------------------------------------------------------------------
(* The client link (src/unnamed/part_000, GraphQLSSELink): the response    *)
(* body arrives in chunks; startSubscription splits every chunk at the     *)
(* line feeds and notifies the observer line by line.                      *)

MaxResults == 2     \* result events the server writes to one stream

\* A piece of the text of the body. The JSON text of a payload is two
\* pieces, so that a chunk can end inside it.
Piece(kind, value) == [kind |-> kind, value |-> value]

LF          == Piece("\n", 0)
DataPrefix  == Piece("data: ", 0)
EventPrefix == Piece("event: ", 0)
JsonText(value) == <<Piece("json head", value), Piece("json tail", value)>>

\* `event: next\ndata: <json>\n\n`; payload 0 is the message
\* "Subscription established - waiting for events...".
NextEventText(value) ==
    <<EventPrefix, Piece("next", 0), LF, DataPrefix>> \o JsonText(value) \o <<LF, LF>>

\* `event: complete\ndata: \n\n`
CompleteEventText == <<EventPrefix, Piece("complete", 0), LF, DataPrefix, LF, LF>>

RECURSIVE ResultEventsText(_, _)
ResultEventsText(from, to) ==
    IF from > to THEN <<>>
    ELSE NextEventText(from) \o ResultEventsText(from + 1, to)

\* What the server writes: the retry line, the connection-established
\* event, `results` result events and, when it ends the stream itself, the
\* complete event.
StreamText(results, completes) ==
    <<Piece("retry: 10000", 0), LF>> \o NextEventText(0)
        \o ResultEventsText(1, results)
        \o (IF completes THEN CompleteEventText ELSE <<>>)

\* text.split('\n')
RECURSIVE Split(_, _)
Split(text, line) ==
    IF text = <<>> THEN <<line>>
    ELSE IF Head(text) = LF THEN <<line>> \o Split(Tail(text), <<>>)
    ELSE Split(Tail(text), Append(line, Head(text)))

\* line.startsWith('data: ') && line.length > 6
IsDataLine(line) == Len(line) > 1 /\ line[1] = DataPrefix

\* JSON.parse(dataStr) returns a value.
Parses(dataStr) == \E value \in 0..MaxResults : dataStr = JsonText(value)

\* data.data?.message?.includes('Subscription established')
IsEstablishedMessage(dataStr) == dataStr = JsonText(0)

\* line.startsWith('event: complete')
IsCompleteLine(line) ==
    Len(line) >= 2 /\ line[1] = EventPrefix /\ line[2] = Piece("complete", 0)

Notified(kind, value) == [kind |-> kind, value |-> value]

\* for (const line of lines) { ... }: the notifications after the lines of
\* one chunk, and whether the function returned from inside the loop.
RECURSIVE ForLines(_, _)
ForLines(lines, seen) ==
    IF lines = <<>> THEN [observer |-> seen, returned |-> FALSE]
    ELSE LET line == Head(lines) IN
         IF IsDataLine(line)
         THEN IF ~Parses(Tail(line))
              THEN ForLines(Tail(lines), seen)         \* console.warn
              ELSE IF IsEstablishedMessage(Tail(line))
              THEN ForLines(Tail(lines), seen)         \* continue
              ELSE ForLines(Tail(lines), Append(seen, Notified("next", Tail(line)[1].value)))
         ELSE IF IsCompleteLine(line)
         THEN [observer |-> Append(seen, Notified("complete", 0)), returned |-> TRUE]
         ELSE ForLines(Tail(lines), seen)

InitClient ==
    /\ sseStream \in { StreamText(results, completes) :
                          results \in 0..MaxResults, completes \in BOOLEAN }
    /\ unread = sseStream
    /\ observer = <<>>
    /\ linkPc = "reading"

ClientIdle ==
    /\ sseStream = <<>>
    /\ unread = <<>>
    /\ observer = <<>>
    /\ linkPc = "idle"

\* reader.read() returns a chunk: any non-empty part of what is unread.
ReadChunk ==
    /\ linkPc = "reading"
    /\ \E n \in 1..Len(unread) :
          LET after == ForLines(Split(SubSeq(unread, 1, n), <<>>), observer)
          IN  /\ unread' = SubSeq(unread, n + 1, Len(unread))
              /\ observer' = after.observer
              /\ linkPc' = IF after.returned THEN "returned" ELSE "reading"
    /\ UNCHANGED sseStream
    /\ UNCHANGED otherThanClient

\* reader.read() returns done: the server ended the response.
ReadDone ==
    /\ linkPc = "reading"
    /\ unread = <<>>
    /\ observer' = Append(observer, Notified("complete", 0))
    /\ linkPc' = "returned"
    /\ UNCHANGED <<sseStream, unread>>
    /\ UNCHANGED otherThanClient

\* reader.read() rejects: with an AbortError after the subscription was
\* cancelled, with another error when the connection broke.
ReadRejected(aborted) ==
    /\ linkPc = "reading"
    /\ observer' = Append(observer, Notified(IF aborted THEN "complete" ELSE "error", 0))
    /\ linkPc' = "returned"
    /\ UNCHANGED <<sseStream, unread>>
    /\ UNCHANGED otherThanClient

NextClient ==
    \/ ReadChunk
    \/ ReadDone
    \/ \E aborted \in BOOLEAN : ReadRejected(aborted)

---------------------------------------------------------------------------
(* Specifications.                                                         *)

\* generateCacheKey on pairs of requests
KeySpecInit == InitKey /\ CacheIdle /\ HookIdle /\ SSEIdle /\ GraphQLIdle /\ DeliveryIdle /\ ProducerIdle /\ ClientIdle
SpecKey == KeySpecInit /\ [][NextKey]_vars

\* the cache under calls, settlements, the clock and the sweep
CacheSpecInit == InitCache /\ KeyIdle /\ HookIdle /\ SSEIdle /\ GraphQLIdle /\ DeliveryIdle /\ ProducerIdle /\ ClientIdle
SpecCacheNoClear == CacheSpecInit /\ [][NextCacheNoClear]_vars

\* the cache under every operation, clear() included
SpecCache == CacheSpecInit /\ [][NextCache]_vars

\* the cache under every operation on the requests of JoinRequests, where
\* a call whose awaited promise has settled is resumed: the continuation of
\* an await is a job of the microtask queue, which the event loop runs
JoinSpecInit == InitCache /\ KeyIdle /\ HookIdle /\ SSEIdle /\ GraphQLIdle /\ DeliveryIdle /\ ProducerIdle /\ ClientIdle
FairSpecCache ==
    /\ JoinSpecInit /\ [][NextJoin]_vars
    /\ \A c \in Calls : WF_vars(OwnerResume(c)) /\ WF_vars(JoinerResume(c))

\* the cache where getStats() is looked at
StatsSpecInit == InitCache /\ KeyIdle /\ HookIdle /\ SSEIdle /\ GraphQLIdle /\ DeliveryIdle /\ ProducerIdle /\ ClientIdle
SpecStats == StatsSpecInit /\ [][NextStats]_vars

\* the webhook endpoint under every configuration
HookSpecInit == InitHook /\ KeyIdle /\ CacheIdle /\ SSEIdle /\ GraphQLIdle /\ DeliveryIdle /\ ProducerIdle /\ ClientIdle
SpecWebhook == HookSpecInit /\ [][NextHook]_vars

\* the SSE streams
SSESpecInit == InitSSE /\ KeyIdle /\ CacheIdle /\ HookIdle /\ GraphQLIdle /\ DeliveryIdle /\ ProducerIdle /\ ClientIdle
SpecSSE == SSESpecInit /\ [][NextSSE]_vars

\* the /graphql endpoint
GraphQLSpecInit == InitGraphQL /\ KeyIdle /\ CacheIdle /\ HookIdle /\ SSEIdle /\ DeliveryIdle /\ ProducerIdle /\ ClientIdle
SpecGraphQL == GraphQLSpecInit /\ [][NextGraphQL]_vars

\* from a webhook to the streams
DeliverySpecInit ==
    InitDelivery /\ InitSSE /\ InitCache /\ KeyIdle /\ HookIdle /\ GraphQLIdle /\ ProducerIdle /\ ClientIdle
SpecDelivery == DeliverySpecInit /\ [][NextDelivery]_vars

\* the producer's webhook transport
ProducerSpecInit ==
    InitProducer /\ KeyIdle /\ CacheIdle /\ HookIdle /\ SSEIdle /\ GraphQLIdle /\ DeliveryIdle /\ ClientIdle
SpecProducer == ProducerSpecInit /\ [][NextProducer]_vars

\* the client link reading one response body
ClientSpecInit ==
    InitClient /\ KeyIdle /\ CacheIdle /\ HookIdle /\ SSEIdle /\ GraphQLIdle /\ DeliveryIdle /\ ProducerIdle
SpecClient == ClientSpecInit /\ [][NextClient]_vars

---------------------------------------------------------------------------
(* Properties of the execution cache.                                      *)

\* The fields of a user context as the claims compare them.
AuthState(uc) == uc.present /\ uc.isAuthenticated
UserIdOf(uc)  == IF uc.present THEN uc.userId ELSE Undefined
RoleSet(uc)   == IF uc.present /\ uc.userRoles.present THEN Range(uc.userRoles.items) ELSE {}
CapSet(uc)    == IF uc.present /\ uc.capabilities.present
                 THEN Range(uc.capabilities.items) ELSE {}

\* C1: callers that invoke executeWithDeduplication with the same key while
\* the caller that started the execution (the first caller, no live entry
\* being cached when it called) has not returned yet never run their own
\* executor, and they return the very result the first caller returns: the
\* executor runs once for the whole group.  Checked for runs of calls,
\* settlements, clock ticks and sweeps.
C1_ConcurrentCallersShareOneExecution ==
    \A o \in Calls, c \in Calls :
        (calls[o].ranExecutor /\ o \in calls[c].overlapped) =>
            /\ ~calls[c].ranExecutor
            /\ calls[c].exec \in {0, calls[o].exec}
            /\ (calls[c].pc = "done" /\ calls[o].pc = "done")
                   => calls[c].result = calls[o].result

\* Three callers, two of them joiners of the first one's execution, one of
\* them with the roles listed in another order, have all returned.
C1_Witness ==
    \E o \in Calls, c \in Calls, d \in Calls :
        /\ c # d
        /\ calls[o].ranExecutor
        /\ o \in calls[c].overlapped /\ o \in calls[d].overlapped
        /\ calls[c].via = "join" /\ calls[d].via = "join"
        /\ calls[c].req # calls[o].req
        /\ calls[o].pc = "done" /\ calls[c].pc = "done" /\ calls[d].pc = "done"

\* C2: at most one executor invocation is in flight for any cache key, in
\* every state reachable by calls, settlements, sweeps and clear().
C2_AtMostOneInFlightPerKey ==
    \A k \in Keys :
        Cardinality({ e \in ExecIds : execs[e].state = "running" /\ execs[e].key = k }) <= 1

---------------------------------------------------------------------------
(* Properties of generateCacheKey.                                         *)

MembersOf(variables) == Range(VariablesOrEmpty(variables))

\* C3: two user contexts that differ in isAuthenticated, in userId, in the
\* set of roles or in the set of capabilities get different keys for the
\* same query, variables and operationName.
C3_DifferentContextsDifferentKeys ==
    ( /\ kphase = "computed"
      /\ subA.query = subB.query
      /\ subA.variables = subB.variables
      /\ subA.operationName = subB.operationName
      /\ \/ AuthState(subA.userContext) # AuthState(subB.userContext)
         \/ UserIdOf(subA.userContext) # UserIdOf(subB.userContext)
         \/ RoleSet(subA.userContext) # RoleSet(subB.userContext)
         \/ CapSet(subA.userContext) # CapSet(subB.userContext) )
    => keyA # keyB

\* C5: two requests with equal queries, variables equal as mappings and user
\* contexts with the same userId, isAuthenticated, role set and capability
\* set get the same key (the operationName being the same).
C5_SameRequestSameKey ==
    ( /\ kphase = "computed"
      /\ subA.query = subB.query
      /\ subA.operationName = subB.operationName
      /\ MembersOf(subA.variables) = MembersOf(subB.variables)
      /\ subA.userContext.present /\ subB.userContext.present
      /\ subA.userContext.isAuthenticated = subB.userContext.isAuthenticated
      /\ subA.userContext.userId = subB.userContext.userId
      /\ RoleSet(subA.userContext) = RoleSet(subB.userContext)
      /\ CapSet(subA.userContext) = CapSet(subB.userContext) )
    => keyA = keyB

---------------------------------------------------------------------------
(* Properties of the webhook endpoint.                                     *)

\* The header value is exactly sha256=<hex HMAC of the raw body under the
\* secret the server validates with>.
ExactSignature(header, raw) ==
    /\ header.present
    /\ header.text = <<"sha256", "=">> \o HmacHex(EffectiveSecret, raw)

\* The header value has the form sha256=<hex digest>: the algorithm, one
\* "=", then one or more hex digits and nothing else.
WellFormedSignature(header) ==
    /\ header.present
    /\ Len(header.text) >= 3
    /\ header.text[1] = "sha256"
    /\ header.text[2] = "="
    /\ \A i \in 3..Len(header.text) : IsHexDigit(header.text[i])

\* C6: every webhook request whose X-Webhook-Signature value is not
\* sha256=<hex HMAC-SHA256 of the exact raw body under the shared secret>
\* is answered 401 and nothing is published for it, whatever the body and
\* whatever the environment configuration.
C6_WrongSignatureRejected ==
    (hreq.present /\ ~ExactSignature(hreq.header, hreq.body.raw))
        => (hres.status = 401 /\ hres.attempts = <<>>)

\* C7: a webhook request whose signature header is missing or is not
\* exactly of the form sha256=<hex digest> is answered 401 and nothing is
\* published.  Stated for the requests on which the header is looked at
\* before anything else can answer: the server runs in production with a
\* secret configured and the body is valid JSON.
C7_MalformedSignatureRejected ==
    (/\ hreq.present
     /\ nodeEnv = "production"
     /\ Truthy(webhookSecretEnv)
     /\ hreq.body.json # "invalid"
     /\ ~WellFormedSignature(hreq.header))
        => (hres.status = 401 /\ hres.attempts = <<>>)

\* C8: in production with the webhook secret unset, no webhook request
\* passes signature validation: the server does not validate against a
\* built-in default key.
C8_NoSubstituteSecretInProduction ==
    (nodeEnv = "production" /\ ~Truthy(webhookSecretEnv) /\ hreq.present)
        => (~hres.authenticated /\ hres.attempts = <<>>)

\* C20: a correctly signed webhook whose payload has no channels member, a
\* channels value that is no array, or an empty channels array is answered
\* 400, and nothing is published.
C20_MissingChannelsRejected ==
    (/\ hreq.present
     /\ ExactSignature(hreq.header, hreq.body.raw)
     /\ hreq.body.json = "object"
     /\ (hreq.body.channels.kind # "array" \/ hreq.body.channels.items = <<>>))
        => (hres.status = 400 /\ hres.attempts = <<>>)

\* C21: a correctly signed webhook whose decoded payload lacks node_type,
\* action or node_id is answered 400 and nothing is published; a payload that
\* carries all three and a non-empty channels array is accepted, whatever
\* the values of the three fields.
C21_RequiredFieldsDecideRejection ==
    (/\ hreq.present
     /\ ExactSignature(hreq.header, hreq.body.raw)
     /\ hreq.body.json = "object")
        => LET b == hreq.body
               lacking == Undefined \in {b.node_type, b.action, b.node_id}
           IN  /\ lacking => (hres.status = 400 /\ hres.attempts = <<>>)
               /\ (~lacking /\ b.channels.kind = "array" /\ b.channels.items # <<>>)
                     => hres.status = 200

\* C22: for an accepted webhook with channel list C, publish is attempted
\* once for every element of C in list order, the publishes that returned
\* are those at the positions that did not throw (a throw does not stop the
\* loop), and the response is 200 with total_channels = |C| and
\* channels_published = the number of publishes that returned.
C22_EveryChannelAttemptedAndCounted ==
    (hreq.present /\ hres.status = 200)
        => LET C == hreq.body.channels.items
               ok == { i \in 1..Len(C) : i \notin hreq.failing }
           IN  /\ hres.attempts = C
               /\ Len(hres.published) = Cardinality(ok)
               /\ \A i \in ok : hres.published[Cardinality({ j \in ok : j <= i })] = C[i]
               /\ hres.total_channels = Len(C)
               /\ hres.channels_published = Cardinality(ok)
               /\ 0 <= hres.channels_published
               /\ hres.channels_published <= hres.total_channels

\* An accepted webhook with two channels: the publish to the first threw,
\* the publish to the second returned.
C22_Witness ==
    /\ hreq.present
    /\ hres.status = 200
    /\ Len(hreq.body.channels.items) = 2
    /\ hreq.failing = {1}
    /\ hres.published = <<hreq.body.channels.items[2]>>

\* The value of member `name` of a payload.
PayloadMember(payload, name) ==
    LET at == { i \in 1..Len(payload) : payload[i][1] = name }
    IN  payload[CHOOSE i \in at : TRUE][2]

\* C34: the payload published for an accepted webhook has the webhook's
\* node_id, as a string, as its id and the webhook's action as its action,
\* whatever keys the context of the webhook has.
C34_PayloadKeepsIdentity ==
    (hreq.present /\ hres.status = 200)
        => /\ PayloadMember(hres.payload, "id") = Str(JsToString(hreq.body.node_id))
           /\ PayloadMember(hres.payload, "action") = hreq.body.action

---------------------------------------------------------------------------
(* Properties of the SSE streams.                                          *)

\* processSSESubscription has nothing left to run for connection c.
HandlerReturned(c) == conns[c].pc \in {"streaming", "ended", "rejected"}

\* C9: for every opened stream, if the client connection closes or errors
\* after the headers were written, createSubscription still being awaited
\* or not, removeSubscription is called for that subscription: once the
\* handler has run to its end, the call has been made.
C9_DisconnectRemovesSubscription ==
    \A c \in ConnIds :
        (conns[c].closed /\ HandlerReturned(c)) => conns[c].removeCalled

\* C10: a closed connection has no registered subscription that a dispatch can
\* still find, and nothing is written to its stream after the close.
C10_ClosedConnectionNotRegistered ==
    \A c \in ConnIds :
        conns[c].closed => (c \notin registry /\ ~conns[c].writtenAfterClose)

\* C28: the connection-established event is no `event: next` block: on
\* every stream each `next` event is a result routed by the registry, and
\* everything written after the first event is registry-driven.
C28_OnlyRegistryDrivenNextEvents ==
    \A c \in ConnIds :
        \A i \in 1..Len(conns[c].frames) :
            /\ conns[c].frames[i].event = "next" => conns[c].frames[i].carries = "result"
            /\ i > 1 => conns[c].frames[i].carries = "result"

---------------------------------------------------------------------------
(* Properties of the /graphql endpoint.                                    *)

\* The kind of the operation a payload selects, "" when it selects none.
SelectedKind(p) ==
    IF p.json = "object" /\ p.doc.present /\ p.doc.syntaxOk
          /\ getOperationAST(p.doc, p.operationName) # <<>>
    THEN getOperationAST(p.doc, p.operationName)[1].kind
    ELSE ""

\* C11: a request that validateSubscription reports invalid, on whichever
\* route it came to processSSESubscription, is answered with one HTTP 400
\* JSON body {errors: [...]}; no event-stream header or block is written
\* and createSubscription is not called.
C11_InvalidSubscriptionGets400 ==
    (greq.present /\ gres.validation.ran /\ ~gres.validation.isValid)
        => /\ gres.status = 400
           /\ gres.contentType = "application/json"
           /\ gres.errors = gres.validation.errors
           /\ gres.errors # <<>>
           /\ gres.frames = <<>>
           /\ ~gres.createCalled

\* An invalid request has been answered on the POST + application/json
\* route, which reaches processSSESubscription through isSubscriptionRequest.
C11_Witness ==
    /\ greq.present
    /\ greq.method = "POST"
    /\ greq.accept = {"application/json"}
    /\ gres.validation.ran
    /\ ~gres.validation.isValid
    /\ SelectedKind(greq.payload) = "query"
    /\ gres.status = 400

\* C12: every POST to /graphql that asks for JSON or an event stream and
\* whose selected operation is a query is rejected with an error whose
\* code is OPERATION_NOT_SUPPORTED, and createSubscription is not called.
C12_QueryRejectedNotSupported ==
    (/\ greq.present
     /\ greq.method = "POST"
     /\ greq.accept \cap {"application/json", "text/event-stream"} # {}
     /\ SelectedKind(greq.payload) = "query")
        => /\ \E i \in 1..Len(gres.errors) : gres.errors[i].code = "OPERATION_NOT_SUPPORTED"
           /\ ~gres.createCalled
           /\ ~gres.proxied

\* C23: whenever a request to /graphql leads to createSubscription or to a
\* one-shot execution upstream, the Authorization and Cookie headers handed
\* on are those of the request.
C23_CredentialsForwardedUnchanged ==
    (greq.present /\ (gres.createCalled \/ gres.proxied))
        => /\ gres.credentials.authorization = greq.headers.authorization
           /\ gres.credentials.cookie = greq.headers.cookie

\* C24: Access-Control-Allow-Origin of every response is the Origin of the
\* request when that origin is in the allow-list, and the fallback origin
\* (the first of the list) otherwise.
C24_AllowOriginEchoesAllowedOrigin ==
    greq.present
        => gres.allowOrigin =
              (IF greq.headers.origin.t = "string"
                    /\ \E i \in 1..Len(corsOrigin) : corsOrigin[i] = greq.headers.origin.s
               THEN greq.headers.origin
               ELSE Str(corsOrigin[1]))

\* C25: a request that reaches handleGraphQLEndpoint is routed by method
\* and Accept header as the negotiation table states, the rows taken in
\* order: GET + text/html to the IDE page, GET + text/event-stream to the
\* subscription from query parameters, POST + text/event-stream to the
\* subscription from the body, POST + application/json to the one-shot
\* proxy or the subscription path; anything else is answered 405 with an
\* Allow header and no handler runs.
C25_RoutedAsNegotiationTable ==
    (greq.present /\ greq.method # "OPTIONS")
        => LET get == greq.method = "GET"
               post == greq.method = "POST"
               html == "text/html" \in greq.accept
               json == "application/json" \in greq.accept
               stream == "text/event-stream" \in greq.accept
           IN  /\ (get /\ html) => gres.handler = "handleGraphiQL"
               /\ (get /\ ~html /\ stream)
                     => gres.handler = "handleSSESubscriptionFromQuery"
               /\ (post /\ stream) => gres.handler = "handleSSESubscription"
               /\ (post /\ ~stream /\ json)
                     => gres.handler \in { "handleSSESubscriptionWithBody",
                                          "handleIntrospectionWithBody" }
               /\ ~( (get /\ (html \/ stream)) \/ (post /\ (stream \/ json)) )
                     => /\ gres.handler = "sendMethodNotAllowed"
                        /\ gres.status = 405
                        /\ gres.allow # ""
                        /\ ~gres.validation.ran
                        /\ ~gres.createCalled
                        /\ ~gres.proxied

\* A POST that accepts only text/html has been answered 405.
C25_Witness ==
    /\ greq.present
    /\ greq.method = "POST"
    /\ greq.accept = {"text/html"}
    /\ gres.status = 405
    /\ gres.handler = "sendMethodNotAllowed"

\* C26: a POST to /graphql that accepts application/json (and no event
\* stream) is forwarded upstream as a one-shot execution when the operation
\* it selects is a query or a mutation, and is never forwarded when the
\* operation it selects is a subscription.
C26_ProxiedIffNotSubscription ==
    (/\ greq.present
     /\ greq.method = "POST"
     /\ "application/json" \in greq.accept
     /\ "text/event-stream" \notin greq.accept)
        => /\ SelectedKind(greq.payload) = "subscription" => ~gres.proxied
           /\ SelectedKind(greq.payload) \in {"query", "mutation"} => gres.proxied

\* C27: for a syntactically valid request whose selected operation is a
\* subscription, validateSubscription returns one error for each variable
\* that is declared non-nullable and is no key of the supplied variables,
\* and reports the request valid exactly when there is no such variable.
C27_OneErrorPerMissingVariable ==
    (/\ greq.present
     /\ gres.validation.ran
     /\ SelectedKind(greq.payload) = "subscription")
        => LET p == greq.payload
               required == getOperationAST(p.doc, p.operationName)[1].required
               keys == IF p.variables.present THEN p.variables.names ELSE {}
               missing == { i \in 1..Len(required) : required[i] \notin keys }
           IN  /\ gres.validation.isValid <=> missing = {}
               /\ Len(gres.validation.errors) = Cardinality(missing)
               /\ \A i \in 1..Len(gres.validation.errors) :
                      gres.validation.errors[i].about = "missingVariable"

\* C32: validateSubscription reports one category of error, in this order
\* of precedence: a request whose document does not parse gets a single
\* syntax error; otherwise a request that selects no operation gets a
\* single operation-not-found error; otherwise an operation that is no
\* subscription gets a single error naming its kind; missing variables are
\* reported only when all of these checks have passed, and then alone.
C32_OneErrorCategoryInPrecedence ==
    (greq.present /\ gres.validation.ran)
        => LET p == greq.payload
               errors == gres.validation.errors
               parseFails == p.json # "object" \/ ~p.doc.present \/ ~p.doc.syntaxOk
               kind == SelectedKind(p)
           IN  /\ parseFails => errors = <<GraphQLError("syntax", "")>>
               /\ (~parseFails /\ kind = "") => errors = <<GraphQLError("notFound", "")>>
               /\ (~parseFails /\ kind \in {"query", "mutation"})
                     => errors = <<GraphQLError("notSubscription: " \o kind, "")>>
               /\ (\E i \in 1..Len(errors) : errors[i].about = "missingVariable")
                     => /\ ~parseFails
                        /\ kind = "subscription"
                        /\ \A i \in 1..Len(errors) : errors[i].about = "missingVariable"

\* A query that also lacks a required variable has been validated: only its
\* kind is reported.
C32_Witness ==
    /\ greq.present
    /\ gres.validation.ran
    /\ SelectedKind(greq.payload) = "query"
    /\ getOperationAST(greq.payload.doc, greq.payload.operationName)[1].required # <<>>
    /\ ~greq.payload.variables.present
    /\ gres.validation.errors = <<GraphQLError("notSubscription: query", "")>>

---------------------------------------------------------------------------
(* Further properties of the execution cache.                              *)

\* The entry cached under key k is younger than ttlMs.
LiveEntry(k) == cache[k].present /\ now - cache[k].timestamp < TtlMs

\* C13: a call that finds, under its key, an entry with now - timestamp <
\* ttlMs returns that entry at once, runs no executor, and leaves the cache
\* map, the pending map and the pending executions as they were.
C13_CacheHitLeavesMapsUnchanged ==
    [][ \A c \in Calls :
          (calls[c].pc = "idle" /\ calls'[c].pc # "idle" /\ LiveEntry(calls'[c].key))
              => /\ calls'[c].pc = "done"
                 /\ calls'[c].result = cache[calls'[c].key]
                 /\ ~calls'[c].ranExecutor
                 /\ calls'[c].exec = 0
                 /\ cache' = cache
                 /\ pendingExecutions' = pendingExecutions
                 /\ execs' = execs ]_vars

\* A call has been served from the cache while the execution that produced
\* the entry was still registered as pending.
C13_Witness ==
    \E c \in Calls :
        /\ calls[c].pc = "done"
        /\ calls[c].via = "cache"
        /\ pendingExecutions[calls[c].key] = calls[c].result.exec

\* C14: when the executor throws, the settled result is the error result
\* (data null, the EXECUTION_ERROR entry, the start time), it is stored in
\* the cache under the key, the owner and every joiner return it, and a
\* call made for the key while that entry is live returns it and runs no
\* executor.
C14_ExecutorFailureIsCachedErrorResult ==
    [][ /\ \A e \in ExecIds :
             (execs[e].state = "running" /\ execs'[e].state = "settled"
                  /\ execs'[e].result.errors)
                 => /\ execs'[e].result =
                          [present |-> TRUE, data |-> 0, errors |-> TRUE,
                           timestamp |-> execs[e].startTime, exec |-> e]
                    /\ cache'[execs[e].key] = execs'[e].result
        /\ \A c \in Calls :
             (calls'[c].pc = "done" /\ calls'[c].via \in {"exec", "join"}
                  /\ execs'[calls'[c].exec].result.errors)
                 => calls'[c].result = execs'[calls'[c].exec].result
        /\ \A c \in Calls :
             (calls[c].pc = "idle" /\ calls'[c].pc # "idle"
                  /\ LiveEntry(calls'[c].key) /\ cache[calls'[c].key].errors)
                 => /\ calls'[c].result = cache[calls'[c].key]
                    /\ ~calls'[c].ranExecutor ]_vars

\* The owner and a joiner of a failed execution have returned its error
\* result, and a third call got the same result from the cache.
C14_Witness ==
    \E o \in Calls, j \in Calls, h \in Calls :
        /\ calls[o].pc = "done" /\ calls[o].via = "exec"
        /\ calls[j].pc = "done" /\ calls[j].via = "join"
        /\ calls[h].pc = "done" /\ calls[h].via = "cache"
        /\ calls[o].result.errors
        /\ calls[j].result = calls[o].result
        /\ calls[h].result = calls[o].result

\* C15: pendingExecutions holds an entry for key k exactly while an
\* execution started for k has not settled (or has settled and its owner
\* is about to run its finally block): the entry of a running execution
\* is never removed.
C15_PendingExactlyWhileInFlight ==
    \A k \in Keys :
        /\ pendingExecutions[k] # 0 =>
              /\ execs[pendingExecutions[k]].key = k
              /\ calls[execs[pendingExecutions[k]].owner].pc = "awaitOwner"
        /\ \A e \in ExecIds :
              (execs[e].state = "running" /\ execs[e].key = k)
                  => pendingExecutions[k] = e

\* C16: a subscriber whose executor would succeed gets a successful
\* result.  The executor of a call that never ran it is any executor, a
\* succeeding one included, so such a call never returns an error result;
\* and a call that ran its executor returns what that executor produced.
C16_OtherFailuresNeverReachSubscriber ==
    \A c \in Calls :
        calls[c].pc = "done" =>
            IF calls[c].ranExecutor
            THEN calls[c].result = execs[calls[c].exec].result
            ELSE ~calls[c].result.errors

\* C16 as amended: a call returns an error result only when the execution
\* it ran, joined or found cached was started for its own cache key and
\* failed; a call that ran its executor returns what that executor
\* produced.
C16_ErrorsStayWithinTheKey ==
    \A c \in Calls :
        calls[c].pc = "done" =>
            /\ calls[c].ranExecutor => calls[c].result = execs[calls[c].exec].result
            /\ calls[c].result.errors =>
                  /\ execs[calls[c].result.exec].key = generateCacheKey(calls[c].req)
                  /\ execs[calls[c].result.exec].result.errors

\* One execution has failed and its joiner has returned the error, while a
\* call with another key has returned a successful result.
C16_Witness ==
    \E j \in Calls, d \in Calls :
        /\ calls[j].pc = "done" /\ calls[j].via = "join" /\ calls[j].result.errors
        /\ calls[d].pc = "done" /\ calls[d].ranExecutor /\ ~calls[d].result.errors
        /\ calls[d].key # calls[j].key

\* C17: without clear(), two executor invocations for the same key start
\* at least ttlMs apart.
C17_OneExecutionPerTtlWindow ==
    \A e \in ExecIds, f \in ExecIds :
        (e # f /\ execs[e].state # "unused" /\ execs[f].state # "unused"
             /\ execs[e].key = execs[f].key /\ execs[e].startTime <= execs[f].startTime)
            => execs[f].startTime - execs[e].startTime >= TtlMs

\* The same key has been executed twice, the second time after a slow
\* first execution whose entry had already expired when it was cached.
C17_Witness ==
    \E e \in ExecIds, f \in ExecIds :
        /\ execs[e].state = "settled" /\ execs[f].state # "unused"
        /\ e # f
        /\ execs[e].key = execs[f].key
        /\ execs[f].startTime > execs[e].startTime
        /\ \E c \in Calls : calls[c].via = "join" /\ calls[c].exec = e /\ calls[c].pc = "done"

\* The entry under key k is deleted by the step.
Removed(k) == cache[k].present /\ ~cache'[k].present

\* C30: an entry is removed only by the sweep or by clear().  A step of
\* executeWithDeduplication deletes no entry and writes only the entry of
\* the key of the execution that settles; a step that deletes entries
\* without being clear() deletes exactly the entries older than ttlMs, none
\* of them live for a lookup, and leaves the pending map as it was.
C30_OnlySweepAndClearRemove ==
    [][ /\ (calls' # calls \/ execs' # execs) =>
              \A k \in Keys :
                 /\ ~Removed(k)
                 /\ cache'[k] # cache[k] =>
                       \E e \in ExecIds : /\ execs[e].state = "running"
                                          /\ execs'[e].state = "settled"
                                          /\ execs[e].key = k
        /\ (clears' = clears /\ \E k \in Keys : Removed(k)) =>
              /\ \A k \in Keys :
                    Removed(k) <=> (cache[k].present /\ now - cache[k].timestamp > TtlMs)
              /\ \A k \in Keys : Removed(k) => ~LiveEntry(k)
              /\ \A k \in Keys : ~Removed(k) => cache'[k] = cache[k]
              /\ pendingExecutions' = pendingExecutions ]_vars

\* The sweep has removed the expired entry of one key and kept the entry of
\* another key, whose age is exactly ttlMs.
C30_Witness ==
    \E e \in ExecIds, f \in ExecIds :
        /\ clears = 0
        /\ execs[e].state = "settled" /\ execs[f].state = "settled"
        /\ execs[e].key # execs[f].key
        /\ ~cache[execs[e].key].present
        /\ cache[execs[f].key].present
        /\ now - cache[execs[f].key].timestamp = TtlMs

\* C31: an entry is written when its execution settles and at no other
\* time, it carries the time at which that executor was invoked, and a call
\* is answered from the cache only with the result of an execution that
\* started less than ttlMs before the lookup.
C31_EntriesStampedWithStartTime ==
    [][ /\ \A k \in Keys :
              (cache'[k] # cache[k] /\ cache'[k].present) =>
                  LET e == cache'[k].exec IN
                  /\ execs[e].state = "running"
                  /\ execs'[e].state = "settled"
                  /\ execs[e].key = k
                  /\ cache'[k].timestamp = execs[e].startTime
        /\ \A c \in Calls :
              (calls[c].pc = "idle" /\ calls'[c].via = "cache") =>
                  LET e == calls'[c].result.exec IN
                  /\ execs[e].key = calls'[c].key
                  /\ now - execs[e].startTime < TtlMs ]_vars

\* An execution that took ttlMs or longer has settled and its entry is in
\* the cache; a later call for the key was not served from it and runs the
\* executor again.
C31_Witness ==
    \E e \in ExecIds, f \in ExecIds :
        /\ execs[e].state = "settled"
        /\ cache[execs[e].key].present
        /\ cache[execs[e].key].exec = e
        /\ now - execs[e].startTime >= TtlMs
        /\ execs[f].state = "running"
        /\ execs[f].key = execs[e].key

\* C37: once the executor of an execution has settled, its owner and every
\* call that joined it return, and the key does not stay pending: its
\* pending entry is removed, so that a later call that finds no live entry
\* starts a new execution.
C37_SettledExecutionReleasesCallersAndKey ==
    /\ \A c \in Calls :
          (calls[c].pc \in {"awaitOwner", "awaitJoin"}
              /\ execs[calls[c].exec].state = "settled")
            ~> (calls[c].pc = "done")
    /\ \A k \in Keys :
          (pendingExecutions[k] # 0 /\ execs[pendingExecutions[k]].state = "settled")
            ~> (pendingExecutions[k] = 0)

\* An owner and a joiner of one execution have both returned and the key
\* is not pending any more.
C37_Witness ==
    \E c, d \in Calls :
        /\ calls[c].pc = "done" /\ calls[c].via = "exec"
        /\ calls[d].pc = "done" /\ calls[d].via = "join"
        /\ calls[d].exec = calls[c].exec
        /\ pendingExecutions[calls[c].key] = 0

\* C38: after clear() no call is answered from the cache with the result of
\* an execution started before that clear(), and both maps stay empty until
\* a call starts a new execution.
C38_ClearDiscardsEverything ==
    /\ [](  (clears > 0 /\ \A e \in ExecIds : execs[e].state # "unused"
                                                => execs[e].startedAfter < clears)
           => \A k \in Keys : ~cache[k].present /\ pendingExecutions[k] = 0 )
    /\ [][ \A c \in Calls :
              (calls[c].pc = "idle" /\ calls'[c].via = "cache")
                  => execs[calls'[c].result.exec].startedAfter = clears ]_vars

\* C33: in every state getStats() reports cacheSize = the number of cache
\* entries, pendingExecutions = the number of keys whose owner has not
\* returned yet, authenticated + anonymous = cacheSize, and anonymous = the
\* number of entries whose request had no authenticated user context.
C33_StatsCountEntriesByAuthentication ==
    LET stats == getStats
        entries == { k \in Keys : cache[k].present }
        inFlight == { k \in Keys : \E c \in Calls : calls[c].pc = "awaitOwner"
                                                      /\ calls[c].key = k }
    IN  /\ stats.cacheSize = Cardinality(entries)
        /\ stats.pendingExecutions = Cardinality(inFlight)
        /\ stats.userContextBreakdown.authenticated
              + stats.userContextBreakdown.anonymous = stats.cacheSize
        /\ stats.userContextBreakdown.anonymous =
              Cardinality({ k \in entries : ~k.hash.userContext.isAuthenticated })

---------------------------------------------------------------------------
(* Properties of the path from a webhook to the streams.                   *)

\* The executeWithDeduplication calls made for subscription s on behalf of
\* ingestion i.
DispatchesOf(s, i) ==
    { c \in Calls : dispatches[c].present /\ dispatches[c].conn = s
                      /\ dispatches[c].ingest = i }

\* The `event: next` blocks written to the stream of s.
NextEvents(s) == Len(SelectSeq(conns[s].frames, LAMBDA f : f.event = "next"))

\* Nothing of the ingested webhooks is still on its way.
Quiescent ==
    /\ bus = <<>>
    /\ \A c \in Calls : dispatches[c].present => dispatches[c].delivered

\* C18: a connection that was subscribed to both channels of the one
\* ingested notification has, once everything is delivered, exactly one
\* `event: next` block on its stream, the stream-open sequence included.
C18_ExactlyOneNextEvent ==
    \A s \in ConnIds :
        ( /\ ingests = 1
          /\ Quiescent
          /\ s \in registry
          /\ { dispatches[c].channel : c \in DispatchesOf(s, 1) } = SubscriptionChannels )
        => NextEvents(s) = 1

\* C19: when the notification is ingested a second time while the
\* subscription is live, the second ingestion runs the executor at most once
\* for the key, and the connection is not delivered the key's result twice
\* less than ttlMs apart.
C19_RetryIsIdempotent ==
    \A s \in ConnIds :
        DispatchesOf(s, 1) # {} =>
            /\ \A k \in Keys :
                  Cardinality({ c \in DispatchesOf(s, 2) :
                                   calls[c].key = k /\ calls[c].ranExecutor }) <= 1
            /\ \A c \in DispatchesOf(s, 1), d \in DispatchesOf(s, 2) :
                  ( /\ dispatches[c].delivered /\ dispatches[d].delivered
                    /\ calls[c].key = calls[d].key
                    /\ dispatches[c].at <= dispatches[d].at )
                  => dispatches[d].at - dispatches[c].at >= TtlMs


---------------------------------------------------------------------------
(* Properties of the producer's webhook transport.                         *)

\* C35: the retry chain of a notification ends: wpgraphql_sse_handle_retry
\* runs for the attempt numbers 1, 2, ... up to 5 at most, attempt n is
\* scheduled with the n-th of the delays 30, 60, 120, 240, 480 seconds, a
\* retry is scheduled only after the attempt before it failed, none is
\* scheduled after an attempt that got a 2xx response, and none for an
\* attempt number above 5.
C35_RetryChainEnds ==
    \A w \in ProducerWebhooks :
        LET d == deliveries[w]
        IN  /\ Len(d.handled) <= 5
            /\ \A i \in 1..Len(d.handled) : d.handled[i] = i
            /\ Len(d.scheduled) <= 5
            /\ \A i \in 1..Len(d.scheduled) :
                  /\ d.scheduled[i].attempt = i
                  /\ d.scheduled[i].delay = <<30, 60, 120, 240, 480>>[i]
                  /\ d.scheduled[i].after = "failed"
            /\ d.scheduled # <<>> => d.initial \notin {"none", "200"}
            /\ Len(d.scheduled) <= Len(d.handled) + 1
            /\ d.pending \subseteq {Len(d.handled) + 1}
            /\ d.pending # {} => Len(d.scheduled) = Len(d.handled) + 1
            /\ d.last = "200" => d.pending = {} /\ Len(d.scheduled) = Len(d.handled)

\* A notification whose five retries have all run and failed.
C35_Witness ==
    \E w \in ProducerWebhooks :
        /\ deliveries[w].handled = <<1, 2, 3, 4, 5>>
        /\ deliveries[w].last = "500"
        /\ deliveries[w].pending = {}
        /\ Len(deliveries[w].scheduled) = 5

\* C36: every queued notification whose initial send did not get a 2xx
\* response from the gateway (connection failure, 401, 400 or 500) has been
\* scheduled for retry.
C36_UnacknowledgedSendIsRetried ==
    \A w \in ProducerWebhooks :
        deliveries[w].initial \in { "connection failure", "401", "400", "500" }
            => deliveries[w].scheduled # <<>>

---------------------------------------------------------------------------
(* Properties of the client link.                                          *)

\* The values of the `next` notifications, in the order received.
NextValues == [i \in 1..Cardinality({ j \in 1..Len(observer) : observer[j].kind = "next" }) |->
                  observer[CHOOSE j \in 1..Len(observer) :
                      /\ observer[j].kind = "next"
                      /\ Cardinality({ h \in 1..j : observer[h].kind = "next" }) = i].value]

\* The result events whose `data:` line, line feed included, has been read.
ResultLinesRead ==
    LET read == Len(sseStream) - Len(unread)
    IN  { v \in 1..MaxResults :
            \E i \in 1..read - 1 : sseStream[i] = Piece("json tail", v) /\ sseStream[i + 1] = LF }

\* C39: however the body is split into chunks, every `data:` line written
\* after the connection-established event gives exactly one `next` with its
\* value, in the order written, and the observer receives at most one
\* terminal notification, with no `next` after it.
C39_EveryResultOnceInOrder ==
    /\ \A i \in 1..Len(NextValues) : NextValues[i] = i
    /\ \A v \in ResultLinesRead : v <= Len(NextValues)
    /\ \A j \in 1..Len(observer) :
          observer[j].kind \in {"complete", "error"} => j = Len(observer)

=============================================================================
